---- MODULE Spec2Model ----
(***************************************************************************)
(* Model of ExplosionEngine.jsx: the explosion manager hook, the Explosion *)
(* component's lifecycle and its delayed / nested children.                *)
(*                                                                         *)
(* React state is modelled as React keeps it: a committed value that the   *)
(* closures of the current render read, plus the updates queued by         *)
(* setState calls, which the next commit (Render) applies in order.        *)
(* useFrame callbacks run in Frame, the setTimeout callbacks in TimerFire   *)
(* (chain explosions) and RingTimerFire (shockwave rings).                 *)
(* Time is kept as the elapsed values the code computes                    *)
(* (Date.now() - startTime.current), saturated at AgeCap.                  *)
(***************************************************************************)
EXTENDS Integers, Sequences, FiniteSets, TLC

\* ------------------------------------------------------------------ bounds
MaxTriggers == 2
MaxPending == 2
MaxFrameLag == 2
AgeCap == 5700

\* Frame-to-frame time steps (ms) the model draws from.
Deltas == {1900}

\* --------------------------------------------------------- configuration
CLASSES ==
  [ SMALL  |-> [particleCount |-> 15,  shockwaveScale |-> 3,  duration |-> 800,
                wreckagePieces |-> 1, chainExplosions |-> FALSE,
                chainCount |-> 0, chainDelay |-> 0],
    MEDIUM |-> [particleCount |-> 30,  shockwaveScale |-> 5,  duration |-> 1000,
                wreckagePieces |-> 2, chainExplosions |-> FALSE,
                chainCount |-> 0, chainDelay |-> 0],
    LARGE  |-> [particleCount |-> 50,  shockwaveScale |-> 8,  duration |-> 1400,
                wreckagePieces |-> 4, chainExplosions |-> FALSE,
                chainCount |-> 0, chainDelay |-> 0],
    BOSS   |-> [particleCount |-> 100, shockwaveScale |-> 15, duration |-> 2500,
                wreckagePieces |-> 8, chainExplosions |-> TRUE,
                chainCount |-> 5, chainDelay |-> 200] ]

\* The tail added to the class duration before an instance completes.
GraceMs == 3000

\* The bound of the lifetime of a particle in ms: randomRange(0.3, 1.2) is
\* below 1.2 s, doubled for smoke.
MaxParticleLifetime == 2400

\* EXPLOSION_CONFIG.SHOCKWAVE and the ring start delay of the init effect
SHOCKWAVE_DURATION == 400
FlashDuration == 200
RING_COUNT == 2
RingDelay == 80

\* The result of arithmetic on undefined (undefined + 3000, undefined * 0.5):
\* every comparison with it is false.
NaN == -1

\* Property names every object literal inherits from Object.prototype: the
\* lookup CLASSES[name] finds a function there, which is truthy.
ObjectPrototype == {"constructor", "toString", "hasOwnProperty", "valueOf"}

\* What the fields read from such an inherited value: every one is undefined,
\* so the loops `i < undefined` run zero times and the flags are falsy.
Inherited ==
  [particleCount |-> 0, shockwaveScale |-> NaN, duration |-> NaN,
   wreckagePieces |-> 0, chainExplosions |-> FALSE, chainCount |-> 0, chainDelay |-> 0]

\* const config = CLASSES[explosionClass] || CLASSES.MEDIUM
Config(explosionClass) ==
  IF explosionClass \in DOMAIN CLASSES THEN CLASSES[explosionClass]
  ELSE IF explosionClass \in ObjectPrototype THEN Inherited
  ELSE CLASSES["MEDIUM"]

VARIABLES
  explosions,      \* useExplosionManager: committed value of the explosions state
  queue,           \* useExplosionManager: setExplosions updates not yet committed
  explosionIdRef,  \* useExplosionManager: explosionIdRef.current
  inst,            \* mounted top-level Explosion components, by key (= id)
  lag,             \* frames run since an update was queued and not yet committed
  returned,        \* history: the ids triggerExplosion has returned, in call order
  calls,           \* history: how often each instance's onComplete prop was invoked
  revoked,         \* history: delayed children pending when clearAll was called
  piece,           \* one FallingWreckage component followed through its fall
  batch,           \* the particle batch of one Explosion component
  shake,           \* one CameraShake component and the camera it moves
  child,           \* one timed child (particle, ring, flash, smoke) and its record
  coll,            \* one child collection (particles, shockwaves, smokeParticles)
  wreckBatch,      \* the wreckage batch of one instance, with the scale of each piece
  trail,           \* one wreckage piece with its smoke trail
  mover            \* one moving record: its kind, height and vertical velocity

\* The manager and the instances it renders.
manager == <<explosions, queue, explosionIdRef, inst, lag, returned, calls, revoked>>

\* The components followed on their own.
aux == <<piece, batch, shake, child, coll, wreckBatch, trail, mover>>

vars == <<explosions, queue, explosionIdRef, inst, lag, returned, calls, revoked, piece, batch, shake, child, coll, wreckBatch, trail, mover>>

\* -------------------------------------------------------------- helpers
Ids(list) == {list[k].id : k \in 1..Len(list)}

\* Date.now() - startTime.current after d more milliseconds.
Age(elapsed, d) == IF elapsed + d > AgeCap THEN AgeCap ELSE elapsed + d

\* ------------------------------------------------- manager state updates
\* Mutant of AddUpdate: the record is put in front.
AddUpdateFront(prev, u) ==
  <<[id |-> u.id, explosionClass |-> u.explosionClass,
     showWreckage |-> u.showWreckage]>> \o prev

\* prev => [...prev, record]
AddUpdate(prev, u) ==
  Append(prev, [id |-> u.id, explosionClass |-> u.explosionClass,
                showWreckage |-> u.showWreckage])

\* Mutant of FilterUpdate: the id is taken for a position in the list.
FilterUpdateAt(prev, id) ==
  IF id + 1 \in 1..Len(prev)
  THEN SubSeq(prev, 1, id) \o SubSeq(prev, id + 2, Len(prev))
  ELSE prev

\* Mutant of FilterUpdate: the records added after the one removed go with it.
FilterUpdateFrom(prev, id) == SelectSeq(prev, LAMBDA e : e.id < id)

\* prev => prev.filter(e => e.id !== id)
FilterUpdate(prev, id) == SelectSeq(prev, LAMBDA e : e.id # id)

\* Mutant of ClearUpdate: the newest record survives.
ClearUpdateKeepLast(prev) == IF prev = <<>> THEN prev ELSE <<prev[Len(prev)]>>

\* setExplosions([])
ClearUpdate(prev) == <<>>

\* Mutant of ApplyUpdate: setExplosions([]) leaves the list as it is.
ApplyUpdateNoClear(prev, u) ==
  IF u.op = "add" THEN AddUpdate(prev, u)
  ELSE IF u.op = "remove" THEN FilterUpdate(prev, u.id)
  ELSE prev

\* One queued setExplosions update applied to the list.
ApplyUpdate(prev, u) ==
  CASE u.op = "add"    -> AddUpdate(prev, u)
    [] u.op = "remove" -> FilterUpdate(prev, u.id)
    [] u.op = "clear"  -> ClearUpdate(prev)

RECURSIVE ApplyAll(_, _)
ApplyAll(prev, updates) ==
  IF updates = <<>> THEN prev
  ELSE ApplyAll(ApplyUpdate(prev, Head(updates)), Tail(updates))

\* The value of the explosions state once React has processed its update queue.
activeSet == ApplyAll(explosions, queue)

RemoveOp(id) == [op |-> "remove", id |-> id, explosionClass |-> "", showWreckage |-> FALSE]
ClearOp == [op |-> "clear", id |-> 0, explosionClass |-> "", showWreckage |-> FALSE]
AddOp(id, cfg) ==
  [op |-> "add", id |-> id, explosionClass |-> cfg.explosionClass,
   showWreckage |-> cfg.showWreckage]

\* ------------------------------------------------ Explosion: construction
\* Mutant of FreshNested: the nested instance is of class LARGE.
FreshNestedLarge ==
  [explosionClass |-> "LARGE", showWreckage |-> FALSE,
   elapsed |-> 0, isComplete |-> FALSE, setIsComplete |-> FALSE]

\* State of a nested <Explosion explosionClass="SMALL" showWreckage={false}>.
FreshNested ==
  [explosionClass |-> "SMALL", showWreckage |-> FALSE,
   elapsed |-> 0, isComplete |-> FALSE, setIsComplete |-> FALSE]

\* Mutant of InitChains: the first chain explosion has no delay.
InitChainsFromZero(cfg) ==
  IF cfg.chainExplosions
  THEN [k \in 1..cfg.chainCount |->
          [id |-> k - 1, delay |-> (k - 1) * cfg.chainDelay, triggered |-> "no",
           ex |-> FreshNested]]
  ELSE <<>>

\* Chain batch of the init effect: delay (i + 1) * chainDelay for i = 0..chainCount-1.
\* triggered: "no" (timer armed), "set" (setTriggered(true) queued), "yes" (committed).
InitChains(cfg) ==
  IF cfg.chainExplosions
  THEN [k \in 1..cfg.chainCount |->
          [id |-> k - 1, delay |-> k * cfg.chainDelay, triggered |-> "no",
           ex |-> FreshNested]]
  ELSE <<>>

\* scale: config.shockwaveScale * (1 - i * 0.2), in tenths of a unit. (The
\* double product differs from the exact one by a rounding error: 3 * 0.8 is
\* 2.4000000000000004.)
RingScale(cfg, i) ==
  IF cfg.shockwaveScale = NaN THEN NaN ELSE cfg.shockwaveScale * (10 - 2 * i)

\* Mutant of InitShockwaves: the outer ring starts first.
InitShockwavesOuterFirst(cfg) ==
  [k \in 1..RING_COUNT |->
     [id |-> k - 1, delay |-> (RING_COUNT - k) * RingDelay, scale |-> RingScale(cfg, k - 1),
      active |-> "no", age |-> 0]]

\* Mutant of InitShockwaves: the second ring starts after 8 s.
InitShockwavesLate(cfg) ==
  [k \in 1..RING_COUNT |->
     [id |-> k - 1, delay |-> (k - 1) * 100 * RingDelay, scale |-> RingScale(cfg, k - 1),
      active |-> "no", age |-> 0]]

\* Shockwave batch of the init effect: ring i starts after i * 80 ms.
\* active: "no" (timer armed), "set" (setActive(true) queued), "yes" (committed),
\* "done" (removeShockwave queued by the ring's onComplete).
\* age: Date.now() - startTime.current, once the timer has set startTime.
InitShockwaves(cfg) ==
  [k \in 1..RING_COUNT |->
     [id |-> k - 1, delay |-> (k - 1) * RingDelay, scale |-> RingScale(cfg, k - 1),
      active |-> "no", age |-> 0]]

\* Mutant of InitWreckage: the pieces are created whatever showWreckage says.
InitWreckageAlways(cfg, showWreckage) ==
  [k \in 1..cfg.wreckagePieces |-> [id |-> k - 1, hasLanded |-> "no"]]

\* Wreckage batch of the init effect: one record per configured piece.
\* hasLanded: "no", "set" (setHasLanded(true) queued), "yes" (committed).
InitWreckage(cfg, showWreckage) ==
  IF showWreckage
  THEN [k \in 1..cfg.wreckagePieces |-> [id |-> k - 1, hasLanded |-> "no"]]
  ELSE <<>>

\* Mutant of ParticlesAdded: the init effect runs after every render.
ParticlesAddedEachRender(r, cfg) == r.particlesAdded + cfg.particleCount

\* The particle records the init effect has put into the particle collection
\* up to the commit of r: the effect has the dependencies [config,
\* showWreckage], which are the same in every render of an instance, so it
\* runs after the first render only; no other code adds a particle.
ParticlesAdded(r, cfg) == IF r.initQueued THEN cfg.particleCount ELSE r.particlesAdded

\* First render of <Explosion key={id}>: startTime = now, every collection empty,
\* and the init effect queues the child batches (initQueued).
Mount(e) ==
  [explosionClass |-> e.explosionClass, showWreckage |-> e.showWreckage,
   elapsed |-> 0, isComplete |-> FALSE, setIsComplete |-> FALSE,
   initQueued |-> TRUE, batchElapsed |-> 0,
   shockwaves |-> <<>>, wreckage |-> <<>>, chainExplosions |-> <<>>,
   secondaryExplosions |-> <<>>, secQueue |-> <<>>, secSeq |-> 0,
   particlesAdded |-> 0]

\* The children of an instance are rendered (and their hooks live) unless it
\* returned null or its batches are not committed yet.
Rendered(r) == ~r.isComplete /\ ~r.initQueued

\* ------------------------------------------------- Explosion: frame step
\* Mutant of CompletionDue: the threshold itself counts.
CompletionDueAtLeast(elapsed, isComplete, duration) ==
  duration # NaN /\ elapsed >= duration + GraceMs /\ ~isComplete

\* if (elapsed > config.duration + 3000 && !isComplete)
CompletionDue(elapsed, isComplete, duration) ==
  duration # NaN /\ elapsed > duration + GraceMs /\ ~isComplete

NestedDuration == Config("SMALL").duration

NestedFires(n, d) ==
  CompletionDue(Age(n.elapsed, d), n.isComplete, Config(n.explosionClass).duration)

\* useFrame of a nested instance: the check sets isComplete (queued).
TickNested(n, d) ==
  [n EXCEPT !.elapsed = Age(n.elapsed, d),
            !.setIsComplete = n.setIsComplete \/ NestedFires(n, d)]

\* Mutant of Fires: the instance waits for its child collections to drain.
FiresWhenDrained(r, d) ==
  /\ CompletionDue(Age(r.elapsed, d), r.isComplete, Config(r.explosionClass).duration)
  /\ r.wreckage = <<>> /\ r.secondaryExplosions = <<>> /\ r.chainExplosions = <<>>

\* Does the top-level check fire onComplete in the frame d ms later?
Fires(r, d) ==
  CompletionDue(Age(r.elapsed, d), r.isComplete, Config(r.explosionClass).duration)

\* Wreckage pieces (indices) whose useFrame finds position.y <= groundY in this
\* frame: those in H cross now; a piece whose setHasLanded is still queued runs
\* with the stale hasLanded = false and finds itself below ground again.
GroundHits(r, H) ==
  IF Rendered(r)
  THEN {k \in 1..Len(r.wreckage) :
          \/ r.wreckage[k].hasLanded = "set"
          \/ r.wreckage[k].hasLanded = "no" /\ r.wreckage[k].id \in H}
  ELSE {}

\* groupRef.current.position.clone() at the call of onGroundHit: the place
\* where piece w is in the frame of its first, or of a repeated, ground hit.
HitPosition(w) == <<w.id, IF w.hasLanded = "no" THEN 1 ELSE 2>>

\* Secondary explosions (committed, hence mounted) whose check fires this frame.
SecondaryFiring(r, d) ==
  IF Rendered(r)
  THEN SelectSeq(r.secondaryExplosions, LAMBDA s : NestedFires(s.ex, d))
  ELSE <<>>

\* Mutant of RingOver: the ring completes only past its duration.
RingOverPast(r, k, d) ==
  /\ Rendered(r)
  /\ r.shockwaves[k].active = "yes"
  /\ Age(r.shockwaves[k].age, d) > SHOCKWAVE_DURATION

\* useFrame of ring k: an active ring whose progress reached 1 calls onComplete,
\* which queues removeShockwave(id).
RingOver(r, k, d) ==
  /\ Rendered(r)
  /\ r.shockwaves[k].active = "yes"
  /\ Age(r.shockwaves[k].age, d) >= SHOCKWAVE_DURATION

\* id: Date.now() + Math.random() of the j-th ground hit of a frame. The sum
\* is rounded to a double, which leaves 4096 values per millisecond: the ids
\* given in one frame are distinct, or (same) the draws fall together. Ids of
\* different frames differ.
SecondaryId(secSeq, j, same) == IF same THEN secSeq ELSE secSeq + j - 1

\* One frame of an instance and of its mounted children, d ms after the last.
TickInstance(r, d, H, same) ==
  LET hits   == GroundHits(r, H)
      firing == SecondaryFiring(r, d)
      order  == SelectSeq([k \in 1..Len(r.wreckage) |-> k], LAMBDA k : k \in hits)
      adds   == [j \in 1..Len(order) |->
                   [op |-> "add", id |-> SecondaryId(r.secSeq, j, same),
                    position |-> HitPosition(r.wreckage[order[j]])]]
      rems   == [j \in 1..Len(firing) |->
                   [op |-> "remove", id |-> firing[j].id, position |-> <<>>]]
  IN [r EXCEPT
        !.elapsed = Age(r.elapsed, d),
        !.setIsComplete = r.setIsComplete \/ Fires(r, d),
        !.batchElapsed = IF Rendered(r) THEN Age(r.batchElapsed, d) ELSE r.batchElapsed,
        !.shockwaves = [k \in 1..Len(r.shockwaves) |->
                          IF RingOver(r, k, d)
                          THEN [r.shockwaves[k] EXCEPT !.active = "done",
                                  !.age = Age(r.shockwaves[k].age, d)]
                          ELSE IF r.shockwaves[k].active \in {"set", "yes"}
                          THEN [r.shockwaves[k] EXCEPT !.age = Age(r.shockwaves[k].age, d)]
                          ELSE r.shockwaves[k]],
        !.wreckage = [k \in 1..Len(r.wreckage) |->
                        IF k \in hits THEN [r.wreckage[k] EXCEPT !.hasLanded = "set"]
                        ELSE r.wreckage[k]],
        !.chainExplosions =
            [k \in 1..Len(r.chainExplosions) |->
               IF Rendered(r) /\ r.chainExplosions[k].triggered = "yes"
               THEN [r.chainExplosions[k] EXCEPT !.ex = TickNested(r.chainExplosions[k].ex, d)]
               ELSE r.chainExplosions[k]],
        !.secondaryExplosions =
            [k \in 1..Len(r.secondaryExplosions) |->
               IF Rendered(r)
               THEN [r.secondaryExplosions[k] EXCEPT
                       !.ex = TickNested(r.secondaryExplosions[k].ex, d)]
               ELSE r.secondaryExplosions[k]],
        !.secQueue = r.secQueue \o adds \o rems,
        !.secSeq = r.secSeq + Cardinality(hits)]

\* Does a child of r run its useFrame body in this frame?
ChildTicked(r) ==
  /\ Rendered(r)
  /\ \/ \E k \in 1..Len(r.shockwaves) : r.shockwaves[k].active = "yes"
     \/ \E k \in 1..Len(r.wreckage) : r.wreckage[k].hasLanded # "yes"
     \/ \E k \in 1..Len(r.chainExplosions) : r.chainExplosions[k].triggered = "yes"
     \/ r.secondaryExplosions # <<>>

\* ---------------------------------------------------- Explosion: commit
CommitNested(n) ==
  [n EXCEPT !.isComplete = n.isComplete \/ n.setIsComplete, !.setIsComplete = FALSE]

\* Mutant of ApplySecUpdate: a removal empties the collection.
ApplySecUpdateClear(prev, u) ==
  IF u.op = "add"
  THEN Append(prev, [id |-> u.id, position |-> u.position, ex |-> FreshNested])
  ELSE <<>>

\* Mutant of ApplySecUpdate: a ground hit replaces the collection by its record.
ApplySecUpdateLast(prev, u) ==
  IF u.op = "add" THEN <<[id |-> u.id, position |-> u.position, ex |-> FreshNested]>>
  ELSE SelectSeq(prev, LAMBDA e : e.id # u.id)

\* setSecondaryExplosions updates: prev => [...prev, record], prev => prev.filter(...)
ApplySecUpdate(prev, u) ==
  IF u.op = "add"
  THEN Append(prev, [id |-> u.id, position |-> u.position, ex |-> FreshNested])
  ELSE SelectSeq(prev, LAMBDA e : e.id # u.id)

RECURSIVE ApplySec(_, _)
ApplySec(prev, updates) ==
  IF updates = <<>> THEN prev
  ELSE ApplySec(ApplySecUpdate(prev, Head(updates)), Tail(updates))

\* Mutant of Unmounted: the children of a completed instance stay mounted.
UnmountedKept(records, field) == records

\* A child component that was unmounted keeps no state of its own.
Unmounted(records, field) ==
  [k \in 1..Len(records) |->
     IF field = "active" THEN [records[k] EXCEPT !.active = "gone", !.age = 0]
     ELSE IF field = "hasLanded" THEN [records[k] EXCEPT !.hasLanded = "gone"]
     ELSE IF field = "triggered"
          THEN [records[k] EXCEPT !.triggered = "gone", !.ex = FreshNested]
          ELSE [records[k] EXCEPT !.ex = FreshNested]]

\* Re-render and commit of a mounted instance: queued updates become state, the
\* children of new records mount, and `if (isComplete) return null` unmounts
\* every child (their effect cleanups clear the timers).
CommitInst(r) ==
  LET cfg    == Config(r.explosionClass)
      done   == r.isComplete \/ r.setIsComplete
      rings  == IF r.initQueued THEN InitShockwaves(cfg)
                ELSE LET kept == SelectSeq(r.shockwaves, LAMBDA w : w.active # "done")
                     IN [k \in 1..Len(kept) |->
                           IF kept[k].active = "set"
                           THEN [kept[k] EXCEPT !.active = "yes"]
                           ELSE kept[k]]
      wreck  == IF r.initQueued THEN InitWreckage(cfg, r.showWreckage)
                ELSE [k \in 1..Len(r.wreckage) |->
                        IF r.wreckage[k].hasLanded = "set"
                        THEN [r.wreckage[k] EXCEPT !.hasLanded = "yes"]
                        ELSE r.wreckage[k]]
      chains == IF r.initQueued THEN InitChains(cfg)
                ELSE [k \in 1..Len(r.chainExplosions) |->
                        IF r.chainExplosions[k].triggered = "set"
                        THEN [r.chainExplosions[k] EXCEPT !.triggered = "yes",
                                                          !.ex = FreshNested]
                        ELSE [r.chainExplosions[k] EXCEPT
                                !.ex = CommitNested(r.chainExplosions[k].ex)]]
      secs   == ApplySec([k \in 1..Len(r.secondaryExplosions) |->
                            [r.secondaryExplosions[k] EXCEPT
                               !.ex = CommitNested(r.secondaryExplosions[k].ex)]],
                         r.secQueue)
  IN [r EXCEPT
        !.isComplete = done,
        !.setIsComplete = FALSE,
        !.initQueued = FALSE,
        !.batchElapsed = IF r.initQueued THEN 0 ELSE r.batchElapsed,
        !.shockwaves = IF done THEN Unmounted(rings, "active") ELSE rings,
        !.wreckage = IF done THEN Unmounted(wreck, "hasLanded") ELSE wreck,
        !.chainExplosions = IF done THEN Unmounted(chains, "triggered") ELSE chains,
        !.secondaryExplosions = IF done THEN Unmounted(secs, "ex") ELSE secs,
        !.secQueue = <<>>,
        !.particlesAdded = ParticlesAdded(r, cfg)]

\* Has the instance state that waits for a commit?
InstDirty(r) ==
  \/ r.setIsComplete \/ r.initQueued \/ r.secQueue # <<>>
  \/ \E k \in 1..Len(r.shockwaves) : r.shockwaves[k].active \in {"set", "done"}
  \/ \E k \in 1..Len(r.wreckage) : r.wreckage[k].hasLanded = "set"
  \/ \E k \in 1..Len(r.chainExplosions) :
        \/ r.chainExplosions[k].triggered = "set"
        \/ r.chainExplosions[k].ex.setIsComplete
  \/ \E k \in 1..Len(r.secondaryExplosions) : r.secondaryExplosions[k].ex.setIsComplete

DirtyOf(q, in) == q # <<>> \/ \E i \in DOMAIN in : InstDirty(in[i])

Dirty == DirtyOf(queue, inst)

RecOf(list, id) == list[CHOOSE k \in 1..Len(list) : list[k].id = id]

\* Does the timer (delay a, created a-th in order k) run no later than (b, j)?
Earlier(a, k, b, j) == a < b \/ (a = b /\ k <= j)

\* A DelayedExplosion whose setTimeout has expired and has not run yet.
TimerDue(r, k) ==
  /\ Rendered(r)
  /\ r.chainExplosions[k].triggered = "no"
  /\ r.batchElapsed >= r.chainExplosions[k].delay

\* A ShockwaveRing whose setTimeout has expired and has not run yet.
RingTimerDue(r, k) ==
  /\ Rendered(r)
  /\ r.shockwaves[k].active = "no"
  /\ r.batchElapsed >= r.shockwaves[k].delay

AnyTimerDue ==
  \E i \in DOMAIN inst :
    \/ \E k \in 1..Len(inst[i].chainExplosions) : TimerDue(inst[i], k)
    \/ \E k \in 1..Len(inst[i].shockwaves) : RingTimerDue(inst[i], k)

\* Has delayed child <<instance, kind, id>> appeared on screen?
Shown(x) ==
  /\ x[1] \in DOMAIN inst
  /\ IF x[2] = "chain"
     THEN \E k \in 1..Len(inst[x[1]].chainExplosions) :
            /\ inst[x[1]].chainExplosions[k].id = x[3]
            /\ inst[x[1]].chainExplosions[k].triggered = "yes"
     ELSE \E k \in 1..Len(inst[x[1]].shockwaves) :
            /\ inst[x[1]].shockwaves[k].id = x[3]
            /\ inst[x[1]].shockwaves[k].active \in {"yes", "done"}

\* The delayed children <<instance, kind, id>> of the mounted instances that
\* have not appeared: their timer is armed, or has run without a commit since.
PendingChildren ==
  {x \in (DOMAIN inst) \X {"chain", "ring"} \X (0..(CLASSES["BOSS"].chainCount - 1)) :
     IF x[2] = "chain"
     THEN \E k \in 1..Len(inst[x[1]].chainExplosions) :
            /\ inst[x[1]].chainExplosions[k].id = x[3]
            /\ inst[x[1]].chainExplosions[k].triggered \in {"no", "set"}
     ELSE \E k \in 1..Len(inst[x[1]].shockwaves) :
            /\ inst[x[1]].shockwaves[k].id = x[3]
            /\ inst[x[1]].shockwaves[k].active \in {"no", "set"}}

PieceIds == 0..(CLASSES["BOSS"].wreckagePieces - 1)

\* Rendered wreckage pieces <<instance, piece id>> that have not landed.
FallingPieces ==
  {<<i, p>> \in (DOMAIN inst) \X PieceIds :
     /\ Rendered(inst[i])
     /\ \E k \in 1..Len(inst[i].wreckage) :
           /\ inst[i].wreckage[k].id = p
           /\ inst[i].wreckage[k].hasLanded = "no"}

\* Mutant of NextRef: the counter is not advanced.
NextRefStuck(ref) == ref

\* const id = explosionIdRef.current++  (the value left in the ref)
NextRef(ref) == ref + 1

\* ------------------------------------------------- FallingWreckage alone
\* A piece under an instance at world height `height`, in fixed frames of
\* PieceStepMs. Heights are kept in fifths of a world unit (y5 = 5 * y) and
\* velocities in world units per second, which makes a frame step exact:
\* velocity.y -= GRAVITY * delta; position.y += velocity.y * delta.
PieceStepMs == 200
GRAVITY == 15

\* velocity.y -= GRAVITY * delta
FallVelocity(vy) == vy - (GRAVITY * PieceStepMs) \div 1000

\* position.add(velocity * delta), in fifths of a unit
FallPosition(y5, vy) == y5 + (5 * vy * PieceStepMs) \div 1000

\* if (groupRef.current.position.y <= groundY), after this frame's move:
\* position is the group's own (local) position under the instance's group.
BelowGround(w) == FallPosition(w.y5, FallVelocity(w.vy)) <= 5 * w.groundY

NoPiece ==
  [mounted |-> FALSE, height |-> 0, groundY |-> 0, vy |-> 0, y5 |-> 0,
   hasLanded |-> "no", reported |-> <<>>, smokeEmitted |-> 0, pending |-> FALSE, lag |-> 0]

\* <FallingWreckage startPosition={0,0,0} groundY={groundY}> mounted under
\* <group position={position}>, with the y component of its random velocity.
NewPiece(height, groundY, vy) ==
  [NoPiece EXCEPT !.mounted = TRUE, !.height = height, !.groundY = groundY, !.vy = vy]

\* The useFrame callback of the piece. hasLanded is the committed value the
\* closure reads ("set": setHasLanded(true) queued, still false in the closure;
\* "yes": committed, and the group with the ref is unmounted).
PieceFrame ==
  /\ piece.mounted
  /\ piece.lag < MaxFrameLag
  /\ piece' =
       IF piece.hasLanded = "yes" THEN piece
       ELSE [piece EXCEPT
               !.vy = FallVelocity(piece.vy),
               !.y5 = FallPosition(piece.y5, FallVelocity(piece.vy)),
               !.smokeEmitted = piece.smokeEmitted + 1,
               !.hasLanded = IF BelowGround(piece) THEN "set" ELSE piece.hasLanded,
               !.reported = IF BelowGround(piece)
                            THEN Append(piece.reported,
                                        FallPosition(piece.y5, FallVelocity(piece.vy)))
                            ELSE piece.reported,
               !.pending = TRUE,
               !.lag = piece.lag + 1]
  /\ UNCHANGED <<manager, batch, shake, child, coll, wreckBatch, trail, mover>>

\* React commits the piece's queued updates (smoke records, hasLanded).
PieceRender ==
  /\ piece.mounted
  /\ piece.pending
  /\ piece' = [piece EXCEPT
                 !.hasLanded = IF piece.hasLanded = "set" THEN "yes" ELSE piece.hasLanded,
                 !.pending = FALSE,
                 !.lag = 0]
  /\ UNCHANGED <<manager, batch, shake, child, coll, wreckBatch, trail, mover>>

\* ------------------------------------------ Explosion: the particle batch
\* Mutant of ParticleType: the share boundaries belong to the earlier type.
ParticleTypeInclusive(i, n) ==
  IF 5 * i <= n THEN "core"
  ELSE IF 5 * i <= 3 * n THEN "fire"
  ELSE IF 5 * i <= 4 * n THEN "spark" ELSE "smoke"

\* type of particle i of n. The source compares i with the double products
\* n * 0.2, n * 0.6 and n * 0.8; for every n up to 2000 these comparisons have
\* the outcome of the exact ones below.
ParticleType(i, n) ==
  IF 5 * i < n THEN "core"
  ELSE IF 5 * i < 3 * n THEN "fire"
  ELSE IF 5 * i < 4 * n THEN "spark" ELSE "smoke"

\* The loop of the init effect: n records, id: particleIdCounter.current++.
InitParticles(n, particleIdCounter) ==
  [k \in 1..n |-> [id |-> particleIdCounter + k - 1, type |-> ParticleType(k - 1, n)]]

NoBatch ==
  [mounted |-> FALSE, particleCount |-> 0, particleIdCounter |-> 0,
   effectRan |-> FALSE, queued |-> <<>>, particles |-> <<>>]

\* First render of an Explosion whose class has n particles.
NewBatch(n) == [NoBatch EXCEPT !.mounted = TRUE, !.particleCount = n]

\* The init effect (dependencies [config, showWreckage], which do not change
\* for a mounted instance): setParticles(newParticles).
ParticleEffect ==
  /\ batch.mounted
  /\ ~batch.effectRan
  /\ batch' = [batch EXCEPT
                 !.effectRan = TRUE,
                 !.queued = InitParticles(batch.particleCount, batch.particleIdCounter),
                 !.particleIdCounter = batch.particleIdCounter + batch.particleCount]
  /\ UNCHANGED <<manager, piece, shake, child, coll, wreckBatch, trail, mover>>

\* React commits setParticles.
ParticleRender ==
  /\ batch.mounted
  /\ batch.effectRan
  /\ batch.particles # batch.queued
  /\ batch' = [batch EXCEPT !.particles = batch.queued]
  /\ UNCHANGED <<manager, piece, shake, child, coll, wreckBatch, trail, mover>>

\* ------------------------------------------------------------ CameraShake
\* The value of a ref that holds nothing.
Null == <<>>

\* Time between two frames of the shake.
ShakeStepMs == 100

\* A shake is started only while the camera is this close to the origin.
MaxCamera == 3

Near(position) ==
  /\ position[1] \in -MaxCamera..MaxCamera
  /\ position[2] \in -MaxCamera..MaxCamera

\* Mutant of Restored: only the two shaken coordinates are put back.
RestoredShaken(position, originalPosition) ==
  <<originalPosition[1], originalPosition[2], position[3]>>

\* camera.position.copy(originalPosition.current)
Restored(position, originalPosition) == originalPosition

\* camera: camera.position as <<x, y, z>>; intensity, duration: the props;
\* startTime: Null, or <<the milliseconds since startTime.current was set>>;
\* originalPosition: Null, or the position cloned by the effect.
NoShake ==
  [mounted |-> FALSE, camera |-> <<0, 0, 0>>, intensity |-> 0, duration |-> 0,
   startTime |-> Null, originalPosition |-> Null]

NewShake(position, duration) ==
  [NoShake EXCEPT !.mounted = TRUE, !.camera = position, !.duration = duration]

\* A render with a new intensity prop, followed by the effect on
\* [intensity, camera]: an intensity above 0 starts a shake from where the
\* camera is now.
SetIntensity(v) ==
  /\ shake.mounted
  /\ v # shake.intensity
  /\ v > 0 => Near(shake.camera)
  /\ shake' = IF v > 0
               THEN [shake EXCEPT !.intensity = v, !.startTime = <<0>>,
                                  !.originalPosition = shake.camera]
               ELSE [shake EXCEPT !.intensity = v]
  /\ UNCHANGED <<manager, piece, batch, child, coll, wreckBatch, trail, mover>>

\* Something else in the scene moves the camera.
MoveCamera(position) ==
  /\ shake.mounted
  /\ position # shake.camera
  /\ shake' = [shake EXCEPT !.camera = position]
  /\ UNCHANGED <<manager, piece, batch, child, coll, wreckBatch, trail, mover>>

\* Mutant of InSpread: the magnitude does not decay with the progress.
InSpreadUndecayed(o, intensity, elapsed, duration) ==
  IF intensity > 0 THEN -intensity <= o /\ o < intensity
  ELSE IF intensity < 0 THEN intensity < o /\ o <= -intensity
  ELSE o = 0

\* o is a value of randomSpread(shake), (Math.random() - 0.5) * 2 * shake, for
\* shake = intensity * (1 - progress) and progress = elapsed / duration: from
\* -shake up to, but not, shake; both sides are multiplied by duration.
InSpread(o, intensity, elapsed, duration) ==
  LET m == intensity * (duration - elapsed)
  IN IF m > 0 THEN -m <= o * duration /\ o * duration < m
     ELSE IF m < 0 THEN m < o * duration /\ o * duration <= -m
     ELSE o = 0

\* The useFrame callback, ShakeStepMs after the last frame; ox and oy are the
\* two randomSpread(shake) draws.
ShakeFrame(ox, oy) ==
  /\ shake.mounted
  /\ (/\ shake.startTime # Null
      /\ shake.originalPosition # Null
      /\ shake.startTime[1] + ShakeStepMs < shake.duration) =>
        \A o \in {ox, oy} :
          InSpread(o, shake.intensity, shake.startTime[1] + ShakeStepMs, shake.duration)
  /\ shake' =
       IF shake.startTime = Null \/ shake.originalPosition = Null THEN shake
       ELSE IF shake.startTime[1] + ShakeStepMs >= shake.duration
       THEN [shake EXCEPT !.camera = Restored(shake.camera, shake.originalPosition),
                          !.startTime = Null]
       ELSE [shake EXCEPT
               !.startTime = <<shake.startTime[1] + ShakeStepMs>>,
               !.camera = <<shake.originalPosition[1] + ox,
                            shake.originalPosition[2] + oy,
                            shake.camera[3]>>]
  /\ UNCHANGED <<manager, piece, batch, child, coll, wreckBatch, trail, mover>>

\* --------------------------------------------------------- timed children
\* ExplosionParticle, ShockwaveRing (once active), ExplosionFlash and
\* SmokeParticle share one frame callback: the progress of the child is its
\* age over its lifetime; at progress >= 1 it calls onComplete and returns,
\* below 1 it updates its mesh. onComplete queues the removal of its record
\* (removeParticle, removeShockwave, setFlash(false), removeSmoke).
ChildStepMs == 100

\* Mutant of ProgressDone: the child is done only past its lifetime.
ProgressPast(age, lifetime) == age > lifetime

\* if (progress >= 1), progress = elapsed / lifetime
ProgressDone(age, lifetime) == age >= lifetime

\* Mutant of Lifetimes: the flash is given the duration of a ring.
LifetimesFlashAsRing(kind) ==
  IF kind = "particle" THEN {300, 1200}
  ELSE IF kind \in {"shockwave", "flash"} THEN {SHOCKWAVE_DURATION}
  ELSE {800, 1500}

\* Lifetimes in ms: the ends of the range of a particle (0.3 to 1.2 s), the
\* duration props of ring and flash, the ends of the range of trail smoke.
\* None depends on the class of the instance.
Lifetimes(kind) ==
  IF kind = "particle" THEN {300, 1200}
  ELSE IF kind = "shockwave" THEN {SHOCKWAVE_DURATION}
  ELSE IF kind = "flash" THEN {FlashDuration}
  ELSE {800, 1500}

\* present: the record is in its owner's collection and the component mounted;
\* age: Date.now() - startTime.current; updatedAt: the age at the last frame
\* that updated the mesh; calls: how often onComplete was called; removing:
\* the removal is queued; explosionClass: the class of the owning instance.
\* For a particle, size is its size prop in hundredths, opacity the opacity of
\* its material times lifetime and scale the scale of its mesh times
\* 1000 * lifetime; the visual state of the other kinds is left out.
NoChild ==
  [kind |-> "none", explosionClass |-> "SMALL", present |-> FALSE, age |-> 0,
   lifetime |-> 0, updatedAt |-> 0, calls |-> 0, removing |-> FALSE,
   size |-> 0, opacity |-> 0, scale |-> 0]

\* The child as its owner's first render with the record mounts it: the flash
\* from useState(true), the others from the batches of the init effect. A
\* particle is rendered with opacity={1} and the default scale 1 of a mesh.
NewChild(kind, lifetime, explosionClass, size) ==
  [NoChild EXCEPT !.kind = kind, !.explosionClass = explosionClass,
                  !.present = TRUE, !.lifetime = lifetime,
                  !.size = size,
                  !.opacity = IF kind = "particle" THEN lifetime ELSE 0,
                  !.scale = IF kind = "particle" THEN 1000 * lifetime ELSE 0]

\* Math.max(0, 1 - progress), times lifetime
ParticleOpacity(age, lifetime) == IF lifetime - age > 0 THEN lifetime - age ELSE 0

\* Mutant of ParticleScale: the particle shrinks to nothing.
ParticleScaleToZero(size, age, lifetime) ==
  IF size * (10 * lifetime - 10 * age) > 10 * lifetime
  THEN size * (10 * lifetime - 10 * age) ELSE 10 * lifetime

\* Math.max(0.01, size * (1 - progress * 0.7)), times 1000 * lifetime
ParticleScale(size, age, lifetime) ==
  IF size * (10 * lifetime - 7 * age) > 10 * lifetime
  THEN size * (10 * lifetime - 7 * age) ELSE 10 * lifetime

\* The useFrame callback of the child, ChildStepMs after the last frame.
ChildFrame ==
  /\ child.present
  /\ child.calls < MaxFrameLag
  /\ child' =
       IF ProgressDone(child.age + ChildStepMs, child.lifetime)
       THEN [child EXCEPT !.age = child.age + ChildStepMs,
                          !.calls = child.calls + 1,
                          !.removing = TRUE]
       ELSE [child EXCEPT
               !.age = child.age + ChildStepMs,
               !.updatedAt = child.age + ChildStepMs,
               !.opacity = IF child.kind = "particle"
                           THEN ParticleOpacity(child.age + ChildStepMs, child.lifetime)
                           ELSE child.opacity,
               !.scale = IF child.kind = "particle"
                         THEN ParticleScale(child.size, child.age + ChildStepMs, child.lifetime)
                         ELSE child.scale]
  /\ UNCHANGED <<manager, piece, batch, shake, coll, wreckBatch, trail, mover>>

\* The owner re-renders: a queued removal unmounts the child. SmokeParticle
\* draws its lifetime in its function body, randomRange(0.8, 1.5), so every
\* render of a trail smoke particle gives its frame callback a new lifetime;
\* the lifetime of a particle is a field of its record and that of a ring or
\* a flash a literal, so theirs stay.
ChildRender(lifetime) ==
  /\ child.present
  /\ lifetime \in Lifetimes(child.kind)
  /\ child.removing \/ (child.kind = "smoke" /\ lifetime # child.lifetime)
  /\ child' = IF child.removing
               THEN [child EXCEPT !.present = FALSE, !.removing = FALSE]
               ELSE [child EXCEPT !.lifetime = lifetime]
  /\ UNCHANGED <<manager, piece, batch, shake, coll, wreckBatch, trail, mover>>

\* ------------------------------------------------------ child collections
\* prev.filter(p => p.id !== id), the update of removeParticle,
\* removeShockwave and removeSmoke.
RECURSIVE FilterOut(_, _)
FilterOut(prev, id) ==
  IF prev = <<>> THEN <<>>
  ELSE IF Head(prev).id # id THEN <<Head(prev)>> \o FilterOut(Tail(prev), id)
  ELSE FilterOut(Tail(prev), id)

\* Mutant of RemoveById: the record at the head goes with the one asked for.
RemoveByIdAndHead(prev, id) ==
  IF \E k \in 1..Len(prev) : prev[k].id = id THEN FilterOut(Tail(prev), id) ELSE prev

RemoveById(prev, id) == FilterOut(prev, id)

\* The queued updates applied in order to the committed collection.
RECURSIVE RemoveAll(_, _)
RemoveAll(prev, ids) ==
  IF ids = <<>> THEN prev ELSE RemoveAll(RemoveById(prev, Head(ids)), Tail(ids))

\* records: the committed state; queued: the ids of the removals queued since
\* the last commit; removed: every id whose removal was ever asked for;
\* again: some removal was asked for a second time.
NoColl == [records |-> <<>>, queued |-> <<>>, removed |-> {}, again |-> FALSE]

\* n records with ids first, first + step, ...: the particle counter and the
\* ring index step by one, the ids of trail smoke, now + Math.random(), by
\* more than the 30 ms between two emissions. slot tells the records apart
\* whatever their ids.
NewColl(n, first, step) ==
  [NoColl EXCEPT !.records = [k \in 1..n |-> [id |-> first + (k - 1) * step, slot |-> k]]]

\* removeParticle(id), removeShockwave(id), removeSmoke(id)
RemoveChild(id) ==
  /\ Len(coll.queued) < MaxPending
  /\ coll' = [coll EXCEPT !.queued = Append(coll.queued, id),
                          !.removed = coll.removed \cup {id},
                          !.again = coll.again \/ id \in coll.removed]
  /\ UNCHANGED <<manager, piece, batch, shake, child, wreckBatch, trail, mover>>

\* React commits the queued removals.
CollRender ==
  /\ coll.queued # <<>>
  /\ coll' = [coll EXCEPT !.records = RemoveAll(coll.records, coll.queued),
                          !.queued = <<>>]
  /\ UNCHANGED <<manager, piece, batch, shake, child, wreckBatch, trail, mover>>

\* ------------------------------------------------------ wreckage scales
\* wreckageScale of each class, in hundredths.
WreckageScale ==
  [ SMALL  |-> <<40, 25, 60>>,
    MEDIUM |-> <<60, 35, 90>>,
    LARGE  |-> <<100, 50, 140>>,
    BOSS   |-> <<150, 80, 200>> ]

\* Mutant of Jitter: the variation is taken from 0.3 instead of 1 - 0.3.
JitterFromVariation == {3, 10, 12}

\* Values of randomRange(1 - scaleVariation, 1 + scaleVariation) in tenths:
\* Math.random() * (1.3 - 0.7) + 0.7 is at least 0.7 and below 1.3.
Jitter == {7, 10, 12}

\* The scale of one piece in thousandths: config.wreckageScale.map(s => s *
\* randomRange(...)), the callback drawing a factor for each of the axes.
PieceScale(wreckageScale, f) == [a \in 1..3 |-> wreckageScale[a] * f[a]]

\* The batches the wreckage loop can build for a class: piece i gets id i and
\* the scale of some three draws.
WreckageBatches(explosionClass) ==
  LET n == CLASSES[explosionClass].wreckagePieces
  IN { [k \in 1..n |-> [id |-> k - 1,
                        scale |-> PieceScale(WreckageScale[explosionClass], draws[k])]] :
         draws \in [1..n -> [1..3 -> Jitter]] }

NoWreck == [explosionClass |-> "SMALL", mounted |-> FALSE, effectRan |-> FALSE,
            wreckage |-> <<>>]

NewWreck(explosionClass) ==
  [NoWreck EXCEPT !.explosionClass = explosionClass, !.mounted = TRUE]

\* The wreckage part of the init effect of an instance with showWreckage,
\* and the commit of setWreckage.
WreckEffect ==
  /\ wreckBatch.mounted
  /\ ~wreckBatch.effectRan
  /\ \E newWreckage \in WreckageBatches(wreckBatch.explosionClass) :
       wreckBatch' = [wreckBatch EXCEPT !.effectRan = TRUE, !.wreckage = newWreckage]
  /\ UNCHANGED <<manager, piece, batch, shake, child, coll, trail, mover>>

\* --------------------------------------- FallingWreckage: the smoke trail
\* The piece of FallingWreckage with its smokeParticles, in frames of any
\* length; whether a frame takes the piece to its ground level is an input.
\* Times are Date.now() in ms, the piece being mounted at MountTime.
MountTime == 1000

\* EXPLOSION_CONFIG.WRECKAGE.SMOKE_EMIT_RATE * 1000
SmokeGapMs == 30

\* const lifetime = randomRange(0.8, 1.5), in ms
SmokeLifeMin == 800
SmokeLifeMax == 1500

MaxSmoke == 3
MaxTrailMs == 1800

\* hasLanded as in the piece model; movedAt: the time of the last frame that
\* changed velocity, position and rotation; smokeParticles: the committed
\* records, each with the startTime ref of its mounted SmokeParticle; adds and
\* removes: the queued updates of smokeParticles.
NoTrail ==
  [mounted |-> FALSE, hasLanded |-> "no", now |-> 0, lastSmokeTime |-> 0, movedAt |-> 0,
   smokeParticles |-> <<>>, adds |-> <<>>, removes |-> {}, lag |-> 0]

NewTrail == [NoTrail EXCEPT !.mounted = TRUE, !.now = MountTime]

\* if (now - phys.lastSmokeTime > SMOKE_EMIT_RATE * 1000)
EmitDue(now, lastSmokeTime) == now - lastSmokeTime > SmokeGapMs

\* if (!groupRef.current || hasLanded) return: the closure reads the committed
\* flag, and the group with the ref is unmounted by the commit of the flag.
PieceRuns(hasLanded) == hasLanded # "yes"

\* The smoke particles whose progress can be 1 or more at time now, and those
\* whose progress is 1 or more for every lifetime.
MayBeDone(t, now) ==
  {t.smokeParticles[k].id : k \in {j \in 1..Len(t.smokeParticles) :
                                    now - t.smokeParticles[j].startTime >= SmokeLifeMin}}

MustBeDone(t, now) ==
  {t.smokeParticles[k].id : k \in {j \in 1..Len(t.smokeParticles) :
                                    now - t.smokeParticles[j].startTime >= SmokeLifeMax}}

\* One animation frame d ms after the last: the callback of the piece, then
\* those of its mounted smoke particles, done being the ones that find their
\* progress at 1 or more and call removeSmoke.
TrailFrame(d, lands, done) ==
  LET now == trail.now + d
      runs == PieceRuns(trail.hasLanded)
      emits == runs /\ EmitDue(now, trail.lastSmokeTime)
      hits == runs /\ (lands \/ trail.hasLanded = "set")
  IN /\ trail.mounted
     /\ trail.lag < MaxFrameLag
     /\ now <= MountTime + MaxTrailMs
     /\ emits => Len(trail.smokeParticles) + Len(trail.adds) < MaxSmoke
     /\ MustBeDone(trail, now) \subseteq done
     /\ done \subseteq MayBeDone(trail, now)
     /\ trail' = [trail EXCEPT
                    !.now = now,
                    !.movedAt = IF runs THEN now ELSE trail.movedAt,
                    !.lastSmokeTime = IF emits THEN now ELSE trail.lastSmokeTime,
                    !.adds = IF emits THEN Append(trail.adds, now) ELSE trail.adds,
                    !.hasLanded = IF hits THEN "set" ELSE trail.hasLanded,
                    !.removes = trail.removes \cup done,
                    !.lag = trail.lag + 1]
     /\ UNCHANGED <<manager, piece, batch, shake, child, coll, wreckBatch, mover>>

\* The render of a landed piece returns the smoke list as the only child of
\* its fragment, that of a falling piece returns it after the group: the
\* commit of the flag moves the list to another child slot, and React
\* unmounts every SmokeParticle of the old list and mounts a new one for each
\* record.
Remounted(hasLanded) == hasLanded = "set"

\* React commits the queued updates of the piece. A SmokeParticle mounted by
\* this commit takes startTime = Date.now().
TrailRender ==
  LET kept == SelectSeq(trail.smokeParticles, LAMBDA p : p.id \notin trail.removes)
      added == [k \in 1..Len(trail.adds) |-> [id |-> trail.adds[k], startTime |-> trail.now]]
      fresh == [k \in 1..Len(kept) |-> [kept[k] EXCEPT !.startTime = trail.now]]
  IN /\ trail.mounted
     /\ trail.lag > 0
     /\ trail' = [trail EXCEPT
                    !.smokeParticles =
                       (IF Remounted(trail.hasLanded) THEN fresh ELSE kept) \o added,
                    !.hasLanded = IF trail.hasLanded = "set" THEN "yes" ELSE trail.hasLanded,
                    !.adds = <<>>,
                    !.removes = {},
                    !.lag = 0]
     /\ UNCHANGED <<manager, piece, batch, shake, child, coll, wreckBatch, mover>>

\* -------------------------------------------------------- moving records
\* The vertical motion of a particle (core, fire, spark, smoke), of a trail
\* smoke particle ("trail") and of a wreckage piece, in frames of MoveStepMs.
\* Heights are in millionths of a world unit and velocities in millionths of
\* a unit per second, which keeps MaxMoves frames exact for the velocities of
\* MoveVelocities.
MoveStepMs == 200
MaxMoves == 3

\* velocity.multiplyScalar(factor), factor in hundredths; core particles and
\* wreckage have no such line.
Decay(kind) ==
  IF kind = "fire" THEN 96
  ELSE IF kind = "spark" THEN 98
  ELSE IF kind = "smoke" THEN 92
  ELSE IF kind = "trail" THEN 95
  ELSE 100

\* velocity.y += delta * bias, bias in thousandths of a unit per second
\* squared.
Bias(kind) ==
  IF kind = "fire" THEN 2000
  ELSE IF kind = "spark" THEN -15000
  ELSE IF kind = "smoke" THEN 1000
  ELSE IF kind = "trail" THEN 800
  ELSE IF kind = "wreckage" THEN -1000 * GRAVITY
  ELSE 0

\* velocity * delta, the division by 1000 ms taken in two steps to stay
\* within 32 bits.
Travel(vy) == ((vy \div 10) * MoveStepMs) \div 100

\* velocity.multiplyScalar(decay); velocity.y += delta * bias
Slowed(kind, vy) == (vy * Decay(kind)) \div 100 + Bias(kind) * MoveStepMs

\* Mutant of Moved: the piece moves before gravity acts, like a particle.
MovedBeforeGravity(kind, m) ==
  [m EXCEPT !.y = m.y + Travel(m.vy), !.vy = Slowed(kind, m.vy)]

\* One frame of a record. A particle and a trail smoke particle add
\* velocity * delta to the position and change the velocity afterwards; a
\* wreckage piece changes velocity.y first and adds the new velocity * delta.
Moved(kind, m) ==
  IF kind = "wreckage"
  THEN [m EXCEPT !.vy = Slowed(kind, m.vy), !.y = m.y + Travel(Slowed(kind, m.vy))]
  ELSE [m EXCEPT !.y = m.y + Travel(m.vy), !.vy = Slowed(kind, m.vy)]

NoMover == [kind |-> "none", y |-> 0, vy |-> 0, moves |-> 0]

NewMover(kind, vy) == [NoMover EXCEPT !.kind = kind, !.vy = vy]

\* A frame of the record in which its progress is below 1 (and the piece not
\* landed).
MoveFrame ==
  /\ mover.kind # "none"
  /\ mover.moves < MaxMoves
  /\ mover' = [Moved(mover.kind, mover) EXCEPT !.moves = mover.moves + 1]
  /\ UNCHANGED <<manager, piece, batch, shake, child, coll, wreckBatch, trail>>

\* ------------------------------------------------------------ actions
\* useExplosionManager after its first render: nothing triggered yet.
ManagerInit ==
  /\ explosions = <<>>
  /\ queue = <<>>
  /\ explosionIdRef = 0
  /\ inst = <<>>
  /\ lag = 0
  /\ returned = <<>>
  /\ calls = [i \in 0..(MaxTriggers - 1) |-> 0]
  /\ revoked = {}

Init ==
  /\ ManagerInit
  /\ piece = NoPiece
  /\ batch = NoBatch
  /\ shake = NoShake
  /\ child = NoChild
  /\ coll = NoColl
  /\ wreckBatch = NoWreck
  /\ trail = NoTrail
  /\ mover = NoMover

\* triggerExplosion({explosionClass, showWreckage, ...}) -> id, for at most
\* maxTriggers calls and maxPending updates between two commits
triggerExplosionWithin(cfg, maxTriggers, maxPending) ==
  /\ explosionIdRef < maxTriggers
  /\ Len(queue) < maxPending
  /\ queue' = Append(queue, AddOp(explosionIdRef, cfg))
  /\ explosionIdRef' = NextRef(explosionIdRef)
  /\ returned' = Append(returned, explosionIdRef)
  /\ UNCHANGED <<explosions, inst, lag, calls, revoked>>
  /\ UNCHANGED aux

triggerExplosion(cfg) == triggerExplosionWithin(cfg, MaxTriggers, MaxPending)

\* Mutant of removeExplosionWithin: the removal takes the id counter back.
removeExplosionRewinding(id, maxPending) ==
  /\ Len(queue) < maxPending
  /\ queue' = Append(queue, RemoveOp(id))
  /\ explosionIdRef' = IF explosionIdRef > 0 THEN explosionIdRef - 1 ELSE 0
  /\ UNCHANGED <<explosions, inst, lag, returned, calls, revoked>>
  /\ UNCHANGED aux

\* removeExplosion(id), called by the application
removeExplosionWithin(id, maxPending) ==
  /\ Len(queue) < maxPending
  /\ queue' = Append(queue, RemoveOp(id))
  /\ UNCHANGED <<explosions, explosionIdRef, inst, lag, returned, calls, revoked>>
  /\ UNCHANGED aux

removeExplosion(id) == removeExplosionWithin(id, MaxPending)

\* clearAllExplosions()
clearAllExplosionsWithin(maxPending) ==
  /\ Len(queue) < maxPending
  /\ queue' = Append(queue, ClearOp)
  /\ revoked' = revoked \cup PendingChildren
  /\ UNCHANGED <<explosions, explosionIdRef, inst, lag, returned, calls>>
  /\ UNCHANGED aux

clearAllExplosions == clearAllExplosionsWithin(MaxPending)

\* The ways the Math.random() draws of a frame can fall: together only if
\* some instance receives two ground hits in the frame.
Draws(H) ==
  IF \E i \in DOMAIN inst :
       Cardinality(GroundHits(inst[i], {p \in PieceIds : <<i, p>> \in H})) >= 2
  THEN BOOLEAN
  ELSE {FALSE}

\* One animation frame d ms after the previous one: every useFrame callback of
\* every mounted component runs, an instance's own check before its children's.
\* H: the falling wreckage pieces <<instance, piece>> that reach the ground now.
\* wired: ExplosionRenderer was given onExplosionComplete={removeExplosion};
\* without the prop, onExplosionComplete?.(id) does nothing.
FrameWith(d, H, wired) ==
  /\ lag < MaxFrameLag
  /\ ~AnyTimerDue
  /\ H \subseteq FallingPieces
  /\ \E same \in Draws(H) :
       inst' = [i \in DOMAIN inst |->
                  TickInstance(inst[i], d, {p \in PieceIds : <<i, p>> \in H}, same)]
  /\ LET firing == SelectSeq(explosions, LAMBDA e : Fires(inst[e.id], d))
     IN queue' = IF wired
                 THEN queue \o [j \in 1..Len(firing) |-> RemoveOp(firing[j].id)]
                 ELSE queue
  /\ calls' = [i \in DOMAIN calls |->
                IF i \in DOMAIN inst /\ Fires(inst[i], d) THEN calls[i] + 1
                ELSE calls[i]]
  /\ lag' = IF DirtyOf(queue', inst') THEN lag + 1 ELSE 0
  /\ UNCHANGED <<explosions, explosionIdRef, returned, revoked>>
  /\ UNCHANGED aux

\* A frame of the demo scene, which passes removeExplosion as the prop.
Frame(d, H) == FrameWith(d, H, TRUE)

\* The setTimeout callback of chain record k of instance i: setTriggered(true).
\* Timers armed in one commit run by deadline, and in creation order at a tie.
TimerFire(i, k) ==
  /\ TimerDue(inst[i], k)
  /\ \A j \in 1..Len(inst[i].chainExplosions) :
       inst[i].chainExplosions[j].triggered = "no"
         => Earlier(inst[i].chainExplosions[k].delay, k, inst[i].chainExplosions[j].delay, j)
  /\ inst' = [inst EXCEPT ![i].chainExplosions[k].triggered = "set"]
  /\ UNCHANGED <<explosions, queue, explosionIdRef, lag, returned, calls, revoked>>
  /\ UNCHANGED aux

\* The setTimeout callback of shockwave ring k of instance i:
\* startTime.current = Date.now(); setActive(true). The callback ran at its
\* deadline, delay ms after the ring was mounted.
RingTimerFire(i, k) ==
  /\ RingTimerDue(inst[i], k)
  /\ \A j \in 1..Len(inst[i].shockwaves) :
       inst[i].shockwaves[j].active = "no"
         => Earlier(inst[i].shockwaves[k].delay, k, inst[i].shockwaves[j].delay, j)
  /\ inst' = [inst EXCEPT ![i].shockwaves[k].active = "set",
                           ![i].shockwaves[k].age =
                              inst[i].batchElapsed - inst[i].shockwaves[k].delay]
  /\ UNCHANGED <<explosions, queue, explosionIdRef, lag, returned, calls, revoked>>
  /\ UNCHANGED aux

\* React processes the queued updates and commits: the manager's list first,
\* then every instance ExplosionRenderer still renders; new keys mount and
\* removed keys unmount.
Render ==
  /\ Dirty = TRUE
  /\ explosions' = activeSet
  /\ queue' = <<>>
  /\ inst' = [i \in Ids(activeSet) |->
               IF i \in DOMAIN inst THEN CommitInst(inst[i])
               ELSE Mount(RecOf(activeSet, i))]
  /\ lag' = 0
  /\ UNCHANGED <<explosionIdRef, returned, calls, revoked>>
  /\ UNCHANGED aux

\* ------------------------------------------------------- specifications
\* Spec: the manager with instances of class SMALL, with and without wreckage.
SmallInputs ==
  { [explosionClass |-> "SMALL", showWreckage |-> TRUE],
    [explosionClass |-> "SMALL", showWreckage |-> FALSE] }

Next ==
  \/ \E cfg \in SmallInputs : triggerExplosion(cfg)
  \/ \E id \in 0..(MaxTriggers - 1) : removeExplosion(id)
  \/ clearAllExplosions
  \/ \E d \in Deltas : \E H \in SUBSET FallingPieces : Frame(d, H)
  \/ \E i \in DOMAIN inst : \E k \in 1..Len(inst[i].shockwaves) : RingTimerFire(i, k)
  \/ Render

Spec == Init /\ [][Next]_vars

\* ChainSpec: a BOSS instance (chain explosions) beside SMALL ones with wreckage.
ChainInputs ==
  { [explosionClass |-> "BOSS",  showWreckage |-> FALSE],
    [explosionClass |-> "SMALL", showWreckage |-> FALSE] }

ChainNext ==
  \/ \E cfg \in ChainInputs :
       /\ cfg.explosionClass = "BOSS" => explosionIdRef = 0
       /\ triggerExplosion(cfg)
  \/ \E id \in 0..(MaxTriggers - 1) : removeExplosion(id)
  \/ clearAllExplosions
  \/ \E d \in Deltas : \E H \in SUBSET FallingPieces : Frame(d, H)
  \/ \E i \in DOMAIN inst : \E k \in 1..Len(inst[i].chainExplosions) : TimerFire(i, k)
  \/ \E i \in DOMAIN inst : \E k \in 1..Len(inst[i].shockwaves) : RingTimerFire(i, k)
  \/ Render

ChainSpec == Init /\ [][ChainNext]_vars

\* ClassSpec: one instance of any class name, with or without wreckage, left
\* to run to its completion. The pieces of an instance are interchangeable, so
\* the pieces that land in a frame are taken lowest id first.
ClassNames == {"SMALL", "MEDIUM", "LARGE", "BOSS", "HUGE", "constructor"}

ClassInputs == [explosionClass : ClassNames, showWreckage : BOOLEAN]

LowestFalling(n) ==
  {x \in FallingPieces :
     Cardinality({y \in FallingPieces : y[1] = x[1] /\ y[2] < x[2]}) < n}

ClassNext ==
  \/ \E cfg \in ClassInputs : explosionIdRef = 0 /\ triggerExplosion(cfg)
  \/ \E d \in Deltas : \E n \in 0..Cardinality(FallingPieces) : Frame(d, LowestFalling(n))
  \/ \E i \in DOMAIN inst : \E k \in 1..Len(inst[i].chainExplosions) : TimerFire(i, k)
  \/ \E i \in DOMAIN inst : \E k \in 1..Len(inst[i].shockwaves) : RingTimerFire(i, k)
  \/ Render

ClassSpec == Init /\ [][ClassNext]_vars

\* SecondarySpec: one LARGE instance with its four pieces, in frames of 400 ms,
\* so that the secondary explosion of a piece that lands early completes
\* before its parent does (4400 ms) and that of a later piece does not.
SecondaryStepMs == 400

SecondaryInputs == { [explosionClass |-> "LARGE", showWreckage |-> TRUE] }

SecondaryTick ==
  \E n \in 0..Cardinality(FallingPieces) : Frame(SecondaryStepMs, LowestFalling(n))

SecondaryNext ==
  \/ \E cfg \in SecondaryInputs : explosionIdRef = 0 /\ triggerExplosion(cfg)
  \/ SecondaryTick
  \/ \E i \in DOMAIN inst : \E k \in 1..Len(inst[i].shockwaves) : RingTimerFire(i, k)
  \/ Render

SecondarySpec == Init /\ [][SecondaryNext]_vars

\* PieceSpec: one wreckage piece, for instance heights above the ground plane,
\* below and above zero, and initial vertical velocities up and down.
PieceHeights == {-3, 0, 4}
PieceGrounds == {-5, -10}
PieceVelocities == {-6, -3, 0, 3, 6}

PieceInit ==
  /\ ManagerInit
  /\ \E h \in PieceHeights : \E g \in PieceGrounds : \E v \in PieceVelocities :
       piece = NewPiece(h, g, v)
  /\ batch = NoBatch
  /\ shake = NoShake
  /\ child = NoChild
  /\ coll = NoColl
  /\ wreckBatch = NoWreck
  /\ trail = NoTrail
  /\ mover = NoMover

PieceNext == PieceFrame \/ PieceRender

PieceSpec == PieceInit /\ [][PieceNext]_vars

\* ParticleSpec: the particle batch of one instance, for every particle count
\* up to that of the largest class.
MaxParticleCount == 100

ParticleInit ==
  /\ ManagerInit
  /\ piece = NoPiece
  /\ \E n \in 0..MaxParticleCount : batch = NewBatch(n)
  /\ shake = NoShake
  /\ child = NoChild
  /\ coll = NoColl
  /\ wreckBatch = NoWreck
  /\ trail = NoTrail
  /\ mover = NoMover

ParticleNext == ParticleEffect \/ ParticleRender

ParticleSpec == ParticleInit /\ [][ParticleNext]_vars

\* ShakeSpec: one CameraShake with the default duration or that of the demo
\* scene, intensities -1, 0, 1 and 2, and a camera that the scene may move
\* between two places.
ShakeDurations == {300, 500}
ShakeIntensities == {-1, 0, 1, 2}
ShakeOffsets == {-1, 0, 1}
CameraPlaces == {<<0, 0, 5>>, <<3, 1, 8>>}

ShakeInit ==
  /\ ManagerInit
  /\ piece = NoPiece
  /\ batch = NoBatch
  /\ \E position \in CameraPlaces : \E duration \in ShakeDurations :
       shake = NewShake(position, duration)
  /\ child = NoChild
  /\ coll = NoColl
  /\ wreckBatch = NoWreck
  /\ trail = NoTrail
  /\ mover = NoMover

ShakeTick == \E ox, oy \in ShakeOffsets : ShakeFrame(ox, oy)

ShakeNext ==
  \/ \E v \in ShakeIntensities : SetIntensity(v)
  \/ \E position \in CameraPlaces : MoveCamera(position)
  \/ ShakeTick

ShakeSpec == ShakeInit /\ [][ShakeNext]_vars

\* DriftSpec: CameraShake in a scene where nothing else moves the camera,
\* which is at DriftStart when the component mounts.
DriftStart == <<0, 0, 5>>

DriftInit ==
  /\ ManagerInit
  /\ piece = NoPiece
  /\ batch = NoBatch
  /\ \E duration \in ShakeDurations : shake = NewShake(DriftStart, duration)
  /\ child = NoChild
  /\ coll = NoColl
  /\ wreckBatch = NoWreck
  /\ trail = NoTrail
  /\ mover = NoMover

DriftNext ==
  \/ \E v \in ShakeIntensities : SetIntensity(v)
  \/ ShakeTick

DriftSpec == DriftInit /\ [][DriftNext]_vars

\* UnwiredSpec: an application that renders ExplosionRenderer without
\* onExplosionComplete, so that a completed instance stays in the active set
\* until the application removes it.
UnwiredTick == \E d \in Deltas : \E H \in SUBSET FallingPieces : FrameWith(d, H, FALSE)

UnwiredNext ==
  \/ \E cfg \in SmallInputs : triggerExplosion(cfg)
  \/ \E id \in 0..(MaxTriggers - 1) : removeExplosion(id)
  \/ UnwiredTick
  \/ \E i \in DOMAIN inst : \E k \in 1..Len(inst[i].shockwaves) : RingTimerFire(i, k)
  \/ Render

UnwiredSpec == Init /\ [][UnwiredNext]_vars

\* CallSpec: the three callbacks of the manager and the commits, without
\* frames, for up to MaxCalls triggers; removeExplosion is also called with
\* an id that was never returned.
MaxCalls == 4

CallNext ==
  \/ \E cfg \in SmallInputs : triggerExplosionWithin(cfg, MaxCalls, MaxPending)
  \/ \E id \in 0..MaxCalls : removeExplosionWithin(id, MaxPending)
  \/ clearAllExplosionsWithin(MaxPending)
  \/ Render

CallSpec == Init /\ [][CallNext]_vars

\* ChildSpec: one timed child of each kind and lifetime, under an instance of
\* any class name, from its mounting to the removal of its record.
ChildKinds == {"particle", "shockwave", "flash", "smoke"}

\* The smallest size of a particle (a core particle, 0.1 * 0.5), the largest
\* (a smoke particle, 0.6 * 2) and one between, in hundredths.
ParticleSizes == {5, 30, 120}

ChildInit ==
  /\ ManagerInit
  /\ piece = NoPiece
  /\ batch = NoBatch
  /\ shake = NoShake
  /\ \E kind \in ChildKinds : \E lifetime \in Lifetimes(kind) :
       \E explosionClass \in ClassNames :
         \E size \in (IF kind = "particle" THEN ParticleSizes ELSE {0}) :
           child = NewChild(kind, lifetime, explosionClass, size)
  /\ coll = NoColl
  /\ wreckBatch = NoWreck
  /\ trail = NoTrail
  /\ mover = NoMover

ChildCommit == \E lifetime \in {300, 400, 800, 1200, 1500} \cup {FlashDuration} : ChildRender(lifetime)

ChildNext == ChildFrame \/ ChildCommit

ChildSpec == ChildInit /\ [][ChildNext]_vars

\* CollSpec: a collection of up to MaxRecords records and removals of ids
\* that are present, already removed, or were never there.
MaxRecords == 4
CollIds == 0..(MaxRecords + 1)

CollInit ==
  /\ ManagerInit
  /\ piece = NoPiece
  /\ batch = NoBatch
  /\ shake = NoShake
  /\ child = NoChild
  /\ \E n \in 0..MaxRecords : \E first \in {0, 1} : \E step \in {1, 2} :
       /\ first + (n - 1) * step <= MaxRecords + 1
       /\ coll = NewColl(n, first, step)
  /\ wreckBatch = NoWreck
  /\ trail = NoTrail
  /\ mover = NoMover

CollNext == (\E id \in CollIds : RemoveChild(id)) \/ CollRender

CollSpec == CollInit /\ [][CollNext]_vars

\* WreckSpec: the wreckage batch of an instance of a class with one or two
\* pieces.
WreckClasses == {"SMALL", "MEDIUM"}

WreckInit ==
  /\ ManagerInit
  /\ piece = NoPiece
  /\ batch = NoBatch
  /\ shake = NoShake
  /\ child = NoChild
  /\ coll = NoColl
  /\ \E explosionClass \in WreckClasses : wreckBatch = NewWreck(explosionClass)
  /\ trail = NoTrail
  /\ mover = NoMover

WreckSpec == WreckInit /\ [][WreckEffect]_vars

\* TrailSpec: one piece from its mounting, in frames 20, 40 or 400 ms apart, the
\* piece reaching its ground level in any frame.
TrailSteps == {20, 40, 400}

TrailInit ==
  /\ ManagerInit
  /\ piece = NoPiece
  /\ batch = NoBatch
  /\ shake = NoShake
  /\ child = NoChild
  /\ coll = NoColl
  /\ wreckBatch = NoWreck
  /\ trail = NewTrail
  /\ mover = NoMover

TrailTick ==
  \E d \in TrailSteps : \E lands \in BOOLEAN :
    \E done \in SUBSET MayBeDone(trail, trail.now + d) : TrailFrame(d, lands, done)

TrailNext == TrailTick \/ TrailRender

TrailSpec == TrailInit /\ [][TrailNext]_vars

\* MoveSpec: one record of each kind, starting at rest or moving up or down.
MoveKinds == {"core", "fire", "spark", "smoke", "trail", "wreckage"}
MoveVelocities == {-5000000, -3000000, 0, 3000000, 5000000}

MoveInit ==
  /\ ManagerInit
  /\ piece = NoPiece
  /\ batch = NoBatch
  /\ shake = NoShake
  /\ child = NoChild
  /\ coll = NoColl
  /\ wreckBatch = NoWreck
  /\ trail = NoTrail
  /\ \E kind \in MoveKinds : \E vy \in MoveVelocities : mover = NewMover(kind, vy)

MoveSpec == MoveInit /\ [][MoveFrame]_vars

\* BossSpec: one instance of any configured class, without wreckage, followed
\* frame by frame from its creation to its completion; frames keep arriving,
\* due timers run and React commits.
ChainStepMs == 200

BossInputs == [explosionClass : DOMAIN CLASSES, showWreckage : {FALSE}]

BossTick == Frame(ChainStepMs, {})

ChainTimer ==
  \E i \in DOMAIN inst : \E k \in 1..Len(inst[i].chainExplosions) : TimerFire(i, k)

BossRingTimer ==
  \E i \in DOMAIN inst : \E k \in 1..Len(inst[i].shockwaves) : RingTimerFire(i, k)

BossNext ==
  \/ \E cfg \in BossInputs : explosionIdRef = 0 /\ triggerExplosion(cfg)
  \/ BossTick
  \/ ChainTimer
  \/ BossRingTimer
  \/ Render

BossSpec ==
  /\ Init /\ [][BossNext]_vars
  /\ WF_vars(BossTick) /\ WF_vars(ChainTimer) /\ WF_vars(BossRingTimer) /\ WF_vars(Render)

\* LiveSpec: onExplosionComplete wired to removeExplosion and an application
\* that only triggers; frames keep arriving, due timers run and React commits.
LiveInputs == { [explosionClass |-> "SMALL", showWreckage |-> FALSE] }

Tick == \E d \in Deltas : \E H \in SUBSET FallingPieces : Frame(d, H)

RingTimer == \E i \in DOMAIN inst : \E k \in 1..Len(inst[i].shockwaves) : RingTimerFire(i, k)

LiveNext ==
  \/ \E cfg \in LiveInputs : triggerExplosion(cfg)
  \/ Tick
  \/ RingTimer
  \/ Render

LiveSpec ==
  Init /\ [][LiveNext]_vars /\ WF_vars(Tick) /\ WF_vars(RingTimer) /\ WF_vars(Render)

\* ================================================================ claims
RecordOf(id, cfg) ==
  [id |-> id, explosionClass |-> cfg.explosionClass, showWreckage |-> cfg.showWreckage]

\* C1: the ids triggerExplosion returns are strictly increasing (hence pairwise
\* distinct and never returned again after a removal or a clear), every active
\* record carries a returned id, and no two records of the active set, committed
\* or with the queued updates applied, share an id.
C1_FreshIds ==
  /\ \A a, b \in 1..Len(returned) : a < b => returned[a] < returned[b]
  /\ \A a, b \in 1..Len(explosions) : a # b => explosions[a].id # explosions[b].id
  /\ \A a, b \in 1..Len(activeSet) : a # b => activeSet[a].id # activeSet[b].id
  /\ Ids(activeSet) \subseteq {returned[a] : a \in 1..Len(returned)}

\* Instance 0 is active, was removed, and the next trigger returned 1.
C1_Witness ==
  /\ Ids(explosions) = {0}
  /\ returned = <<0, 1>>
  /\ Len(queue) = 2 /\ queue[1] = RemoveOp(0) /\ queue[2].op = "add" /\ queue[2].id = 1

\* C2: a triggerExplosion call appends exactly one record, carrying the returned
\* id, at the end of the active set and leaves the records already in it
\* unchanged and in order; it is enabled whatever the size of the active set.
C2_Appends ==
  [][\A cfg \in SmallInputs :
       triggerExplosion(cfg) =>
         /\ activeSet' = Append(activeSet, RecordOf(returned'[Len(returned')], cfg))
         /\ SubSeq(activeSet', 1, Len(activeSet)) = activeSet]_vars

\* A trigger was the last call and the active set already held a record.
C2_Witness ==
  /\ queue # <<>> /\ queue[Len(queue)].op = "add"
  /\ Len(activeSet) = 2 /\ Len(explosions) = 1

\* C3: removeExplosion(id) for an id that is not in the active set leaves the
\* active set unchanged, removes nothing but the record with that id otherwise,
\* and a second removeExplosion(id) leaves the set as the first one left it.
C3_RemoveIdempotent ==
  [][\A id \in 0..(MaxTriggers - 1) :
       removeExplosion(id) =>
         /\ id \notin Ids(activeSet) => activeSet' = activeSet
         /\ activeSet' = SelectSeq(activeSet, LAMBDA e : e.id # id)
         /\ ApplyAll(explosions', Append(queue', RemoveOp(id))) = activeSet']_vars

\* removeExplosion(0) was called twice in a row while instance 0 was active.
C3_Witness ==
  /\ 0 \in Ids(explosions)
  /\ queue = <<RemoveOp(0), RemoveOp(0)>>

\* C4: clearAllExplosions leaves the active set empty, whatever the instances
\* are doing; the commit that follows unmounts every instance; a
\* triggerExplosion after it adds its record with an id never returned before.
C4_ClearAll ==
  [][/\ clearAllExplosions => activeSet' = <<>>
     /\ (Render /\ queue # <<>> /\ queue[Len(queue)].op = "clear")
          => explosions' = <<>> /\ inst' = <<>>
     /\ \A cfg \in SmallInputs :
          (triggerExplosion(cfg) /\ queue # <<>> /\ queue[Len(queue)].op = "clear")
            => /\ activeSet' = <<RecordOf(explosionIdRef, cfg)>>
               /\ \A a \in 1..Len(returned) : returned[a] # explosionIdRef]_vars

\* clearAllExplosions was called while instance 0 was mounted and not complete,
\* and a trigger followed it.
C4_Witness ==
  /\ 0 \in DOMAIN inst /\ ~inst[0].isComplete /\ ~inst[0].setIsComplete
  /\ Len(queue) = 2 /\ queue[1] = ClearOp /\ queue[2].op = "add"
  /\ Ids(activeSet) = {1}

Marked(r) == r.isComplete \/ r.setIsComplete

\* removeExplosion(i) was called for the mounted instance i.
Removed(i) == \E k \in 1..Len(queue) : queue[k].op = "remove" /\ queue[k].id = i

\* C5: a delayed child (chain explosion, shockwave ring) that was pending when
\* clearAllExplosions was called is never on screen afterwards.
C5_NoLateChild == \A x \in revoked : ~Shown(x)

\* clearAllExplosions was called while a chain explosion and a shockwave ring of
\* instance 0 were pending; the instance was unmounted and a later instance has
\* been ticked since.
C5_Witness ==
  /\ \E x, y \in revoked : x[1] = 0 /\ y[1] = 0 /\ x[2] = "chain" /\ y[2] = "ring"
  /\ 0 \notin DOMAIN inst
  /\ \E j \in DOMAIN inst : inst[j].elapsed > 0

\* C6: once removeExplosion was called for an instance or the instance has set
\* its completed flag (in an earlier frame, or in this frame, where its check
\* runs before its children's callbacks), no frame runs a child of it, no child
\* queues a secondary explosion on it, and none of its delayed children appears.
C6_ChildrenStop ==
  [][/\ \A d \in Deltas : \A H \in SUBSET FallingPieces :
          Frame(d, H) =>
            \A i \in DOMAIN inst :
              (Removed(i) \/ inst[i].setIsComplete \/ Fires(inst[i], d))
                => /\ ~ChildTicked(inst[i])
                   /\ inst'[i].secSeq = inst[i].secSeq
     /\ \A i \in DOMAIN inst : \A kind \in {"chain", "ring"} :
          \A c \in 0..(CLASSES["BOSS"].chainCount - 1) :
            (Removed(i) \/ Marked(inst[i]))
              => (Shown(<<i, kind, c>>)' => Shown(<<i, kind, c>>))]_vars

Threshold(r) == Config(r.explosionClass).duration + GraceMs

\* C7: the onComplete prop of an instance is invoked at most once over the
\* life of the instance, however many frames run before the completed flag
\* set by the first invocation is committed.
C7_AtMostOnce == \A i \in DOMAIN calls : calls[i] <= 1

\* C8 (as claimed): an instance has set its completed flag exactly when a frame
\* has seen elapsed >= duration + 3000.
C8_AtThreshold ==
  \A i \in DOMAIN inst : Marked(inst[i]) <=> inst[i].elapsed >= Threshold(inst[i])

\* C8 (amended): an instance has set its completed flag exactly when a frame
\* has seen elapsed > duration + 3000; a frame at exactly duration + 3000
\* (3800 ms for SMALL) does not complete it. The same holds of a nested
\* secondary explosion.
C8_PastThreshold ==
  \A i \in DOMAIN inst :
    /\ Marked(inst[i]) <=> inst[i].elapsed > Threshold(inst[i])
    /\ \A k \in 1..Len(inst[i].secondaryExplosions) :
         Marked(inst[i].secondaryExplosions[k].ex) <=>
           inst[i].secondaryExplosions[k].ex.elapsed > NestedDuration + GraceMs

\* A SMALL instance has been ticked at exactly 3800 ms and is not completed.
C8_Witness ==
  \E i \in DOMAIN inst :
    /\ inst[i].explosionClass = "SMALL"
    /\ inst[i].elapsed = 3800
    /\ ~Marked(inst[i])

\* C9: two instances of equal class duration created at the same time have set
\* their completed flag at the same frames, whatever their child collections
\* hold: live children do not delay completion and empty collections do not
\* advance it.
C9_ChildrenIrrelevant ==
  \A i, j \in DOMAIN inst :
    (/\ Threshold(inst[i]) = Threshold(inst[j])
     /\ inst[i].elapsed = inst[j].elapsed)
      => (Marked(inst[i]) <=> Marked(inst[j]))

\* Two instances created together completed in the same frame: one with a
\* wreckage piece still falling and a live secondary explosion, one whose
\* child collections are all empty.
C9_Witness ==
  \E i, j \in DOMAIN inst :
    /\ inst[i].elapsed = inst[j].elapsed
    /\ inst[i].setIsComplete /\ inst[j].setIsComplete
    /\ inst[i].wreckage # <<>>
    /\ \E k \in 1..Len(inst[i].secondaryExplosions) :
         ~Marked(inst[i].secondaryExplosions[k].ex)
    /\ inst[j].wreckage = <<>> /\ inst[j].secondaryExplosions = <<>>
    /\ inst[j].chainExplosions = <<>> /\ inst[j].shockwaves = <<>>

C11_UnknownIsMedium ==
  \A i \in DOMAIN inst :
    inst[i].explosionClass \notin DOMAIN CLASSES
      => /\ Config(inst[i].explosionClass) = CLASSES["MEDIUM"]
         /\ ~inst[i].initQueued =>
              /\ Len(inst[i].wreckage) = (IF inst[i].showWreckage THEN 2 ELSE 0)
              /\ inst[i].chainExplosions = <<>>
         /\ Marked(inst[i]) <=> inst[i].elapsed > 1000 + GraceMs

\* World-space height of the piece, in fifths of a unit.
WorldY5(w, y5) == 5 * w.height + y5

\* C12: a piece above the ground plane has not landed, and a piece that landed
\* did so at a position at or below the ground plane, in world space.
C12_LandsAtGround ==
  piece.mounted =>
    /\ piece.hasLanded = "no" => WorldY5(piece, piece.y5) > 5 * piece.groundY
    /\ piece.hasLanded # "no" => WorldY5(piece, piece.reported[1]) <= 5 * piece.groundY

\* C13: onGroundHit has been called once for a piece that crossed its ground
\* level, with the position of the frame of the crossing, and not at all for a
\* piece that has not crossed it, however many frames run before the landed
\* flag is committed.
C13_HitOnce ==
  piece.mounted =>
    /\ Len(piece.reported) = (IF piece.hasLanded = "no" THEN 0 ELSE 1)
    /\ piece.hasLanded = "set" => piece.reported[1] = piece.y5

AddsOf(updates) == SelectSeq(updates, LAMBDA u : u.op = "add")

\* C14: a frame queues one secondary record per ground-hit callback of the
\* frame, carrying the position that the piece reported, and queues nothing
\* outside a frame; the commit turns every queued record into one new entry of
\* the secondary collection, a nested instance of class SMALL without wreckage
\* at that position; the chain collection gains no record by either step.
C14_OneSecondaryPerHit ==
  [][\A i \in DOMAIN inst \cap DOMAIN inst' :
       LET r      == inst[i]
           s      == inst'[i]
           called == {k \in 1..Len(s.wreckage) : s.wreckage[k].hasLanded = "set"}
           new    == AddsOf(SubSeq(s.secQueue, Len(r.secQueue) + 1, Len(s.secQueue)))
           queued == AddsOf(r.secQueue)
           fresh  == SubSeq(s.secondaryExplosions,
                            Len(s.secondaryExplosions) - Len(queued) + 1,
                            Len(s.secondaryExplosions))
       IN /\ lag' = lag + 1 =>
               /\ Len(new) = Cardinality(called)
               /\ {new[j].position[1] : j \in 1..Len(new)}
                    = {s.wreckage[k].id : k \in called}
          /\ lag' # lag + 1 => Len(AddsOf(s.secQueue)) <= Len(queued)
          /\ (r.secQueue # <<>> /\ s.secQueue = <<>>) =>
               /\ Len(s.secondaryExplosions)
                    = Len(r.secondaryExplosions) + 2 * Len(queued) - Len(r.secQueue)
               /\ \A j \in 1..Len(queued) :
                    /\ fresh[j].id = queued[j].id
                    /\ fresh[j].position = queued[j].position
                    /\ fresh[j].ex.explosionClass = "SMALL"
                    /\ fresh[j].ex.showWreckage = FALSE
                    /\ fresh[j].ex.elapsed = 0
          /\ ~r.initQueued => Len(s.chainExplosions) = Len(r.chainExplosions)]_vars

\* Two pieces of one instance have landed in one frame and each has its own
\* secondary explosion in the committed collection.
C14_Witness ==
  \E i \in DOMAIN inst :
    \E a, b \in 1..Len(inst[i].secondaryExplosions) :
      /\ a # b
      /\ inst[i].secondaryExplosions[a].position[1]
           # inst[i].secondaryExplosions[b].position[1]
      /\ inst[i].secondaryExplosions[a].ex.elapsed
           = inst[i].secondaryExplosions[b].ex.elapsed
      /\ inst[i].chainExplosions # <<>>

TypeCount(particles, type) == Len(SelectSeq(particles, LAMBDA q : q.type = type))

\* C15: the committed batch of an instance with particleCount n holds n
\* particles with ids 0..n-1 in order, particle i being core if i < 0.2n, else
\* fire if i < 0.6n, else spark if i < 0.8n, else smoke; for the four classes
\* the batch splits 3+6+3+3, 6+12+6+6, 10+20+10+10 and 20+40+20+20.
C15_ParticleBatch ==
  LET n == batch.particleCount
      P == batch.particles
  IN (batch.mounted /\ batch.effectRan /\ batch.queued = P) =>
       /\ Len(P) = n
       /\ \A k \in 1..n :
            /\ P[k].id = k - 1
            /\ P[k].type = "core"  <=> 10 * (k - 1) < 2 * n
            /\ P[k].type = "fire"  <=> 10 * (k - 1) >= 2 * n /\ 10 * (k - 1) < 6 * n
            /\ P[k].type = "spark" <=> 10 * (k - 1) >= 6 * n /\ 10 * (k - 1) < 8 * n
            /\ P[k].type = "smoke" <=> 10 * (k - 1) >= 8 * n
       /\ \A c \in DOMAIN CLASSES :
            n = CLASSES[c].particleCount =>
              /\ 5 * TypeCount(P, "core") = n
              /\ 5 * TypeCount(P, "fire") = 2 * n
              /\ 5 * TypeCount(P, "spark") = n
              /\ 5 * TypeCount(P, "smoke") = n

\* The committed batch of a SMALL instance: 15 particles, 3 core, 6 fire,
\* 3 spark and 3 smoke.
C15_Witness ==
  /\ batch.mounted /\ batch.effectRan
  /\ batch.particleCount = CLASSES["SMALL"].particleCount
  /\ Len(batch.particles) = 15
  /\ TypeCount(batch.particles, "core") = 3
  /\ TypeCount(batch.particles, "fire") = 6
  /\ TypeCount(batch.particles, "spark") = 3
  /\ TypeCount(batch.particles, "smoke") = 3

\* The chain records of a committed, uncompleted instance, as the class table
\* prescribes them.
ChainsAsConfigured(r) ==
  LET cfg == CLASSES[r.explosionClass]
      C   == r.chainExplosions
  IN IF cfg.chainExplosions
     THEN /\ Len(C) = cfg.chainCount
          /\ \A k \in 1..Len(C) : C[k].id = k - 1 /\ C[k].delay = k * cfg.chainDelay
          /\ r.explosionClass = "BOSS" =>
               [k \in 1..Len(C) |-> C[k].delay] = <<200, 400, 600, 800, 1000>>
     ELSE C = <<>>

\* C16: an instance has chain records only if its class sets chainExplosions:
\* chainCount of them, record i with delay (i+1)*chainDelay (BOSS: 200, 400,
\* 600, 800, 1000 ms). A record is triggered only once its delay has passed
\* since the creation of the parent and only after the records before it; a
\* triggered record never returns to untriggered while the parent is mounted,
\* and it shows one nested instance of class SMALL without wreckage. Every
\* record of a parent that stays mounted is eventually triggered.
C16_ChainRecords ==
  /\ [](\A i \in DOMAIN inst :
          LET r == inst[i]
              C == r.chainExplosions
          IN Rendered(r) =>
               /\ ChainsAsConfigured(r)
               /\ \A k \in 1..Len(C) :
                    C[k].triggered # "no" =>
                      /\ r.batchElapsed >= C[k].delay
                      /\ r.elapsed >= C[k].delay
                      /\ \A j \in 1..(k - 1) : C[j].triggered # "no"
                      /\ C[k].ex.explosionClass = "SMALL"
                      /\ C[k].ex.showWreckage = FALSE)
  /\ [][\A i \in DOMAIN inst \cap DOMAIN inst' :
          \A k \in 1..Len(inst[i].chainExplosions) :
            (Rendered(inst'[i]) /\ inst[i].chainExplosions[k].triggered # "no")
              => inst'[i].chainExplosions[k].triggered # "no"]_vars
  /\ \A k \in 0..(CLASSES["BOSS"].chainCount - 1) :
       (0 \in DOMAIN inst /\ inst[0].explosionClass = "BOSS") ~> Shown(<<0, "chain", k>>)

\* 600 ms after the batch of a BOSS instance was committed, the first two chain
\* explosions are on screen, the timer of the third has just run and the last
\* two are waiting.
C16_Witness ==
  \E i \in DOMAIN inst :
    /\ inst[i].explosionClass = "BOSS"
    /\ inst[i].batchElapsed = 600
    /\ [k \in 1..Len(inst[i].chainExplosions) |-> inst[i].chainExplosions[k].triggered]
         = <<"yes", "yes", "set", "no", "no">>

\* The stages a mounted ring passes through, in order.
RingStage(active) ==
  IF active = "no" THEN 0 ELSE IF active = "set" THEN 1 ELSE IF active = "yes" THEN 2 ELSE 3

\* C17: a ring of a mounted instance only moves forward through pending
\* (timer armed, then activation queued), active and done, and leaves the
\* collection only when done; it is activated no earlier than its delay after
\* the creation of the instance; in a frame it completes exactly if it is
\* active and 400 ms or more have passed since its activation, so a pending
\* ring is never completed by a frame; the next commit removes a done ring.
C17_RingLifecycle ==
  /\ [](\A i \in DOMAIN inst : \A k \in 1..Len(inst[i].shockwaves) :
          LET w == inst[i].shockwaves[k]
          IN (Rendered(inst[i]) /\ w.active # "no") =>
               /\ inst[i].batchElapsed >= w.delay
               /\ inst[i].elapsed >= w.delay)
  /\ [][\A i \in DOMAIN inst \cap DOMAIN inst' :
          \A k \in 1..Len(inst[i].shockwaves) :
            LET w    == inst[i].shockwaves[k]
                left == SelectSeq(inst'[i].shockwaves, LAMBDA x : x.id = w.id)
            IN (Rendered(inst[i]) /\ Rendered(inst'[i])) =>
                 /\ Len(left) <= 1
                 /\ left = <<>> => w.active = "done"
                 /\ left # <<>> =>
                      /\ RingStage(left[1].active) >= RingStage(w.active)
                      /\ RingStage(left[1].active) <= RingStage(w.active) + 1
                 /\ BossTick =>
                      /\ left # <<>>
                      /\ (w.active # "done" /\ left[1].active = "done")
                           <=> (w.active = "yes"
                                /\ w.age + ChainStepMs >= SHOCKWAVE_DURATION)
                      /\ left[1].active # "done" => left[1].active = w.active
                 /\ Render => (w.active = "done" <=> left = <<>>)]_vars

\* The first ring of an instance was active for 200 ms and completes in the
\* frame at exactly 400 ms, while the second, started 80 ms later, stays active.
C17_Witness ==
  \E i \in DOMAIN inst :
    /\ Len(inst[i].shockwaves) = 2
    /\ inst[i].shockwaves[1].active = "done"
    /\ inst[i].shockwaves[1].age = SHOCKWAVE_DURATION
    /\ inst[i].shockwaves[2].active = "yes"
    /\ inst[i].shockwaves[2].age = SHOCKWAVE_DURATION - RingDelay

\* C19: the shockwave collection of a committed instance of any configured
\* class starts as two records, id 0 with delay 0 and id 1 with delay 80 ms,
\* scaled to 100% and 80% of the class's shockwaveScale (in tenths: 30 and 24
\* for SMALL) and both there until a ring can complete; the collection never
\* holds another record, and the second ring is not activated while the first
\* still waits for its timer.
C19_TwoRings ==
  \A i \in DOMAIN inst :
    LET r   == inst[i]
        W   == r.shockwaves
        top == CLASSES[r.explosionClass].shockwaveScale
    IN Rendered(r) =>
         /\ \A k \in 1..Len(W) :
              \/ W[k].id = 0 /\ W[k].delay = 0 /\ 10 * W[k].scale = 100 * top
              \/ W[k].id = 1 /\ W[k].delay = 80 /\ 10 * W[k].scale = 80 * top
         /\ r.batchElapsed < SHOCKWAVE_DURATION =>
              [k \in 1..Len(W) |-> W[k].id] = <<0, 1>>
         /\ r.explosionClass = "SMALL" =>
              \A k \in 1..Len(W) : W[k].scale = (IF W[k].id = 0 THEN 30 ELSE 24)
         /\ \A k, j \in 1..Len(W) :
              (W[k].id = 0 /\ W[j].id = 1 /\ W[k].active = "no") => W[j].active = "no"

\* The batch of a SMALL instance is committed for 200 ms: the timer of the
\* first ring has run, that of the second ring is due and has not run yet.
C19_Witness ==
  \E i \in DOMAIN inst :
    /\ inst[i].explosionClass = "SMALL"
    /\ inst[i].batchElapsed = 200
    /\ Len(inst[i].shockwaves) = 2
    /\ inst[i].shockwaves[1].scale = 30 /\ inst[i].shockwaves[1].active = "yes"
    /\ inst[i].shockwaves[2].scale = 24 /\ inst[i].shockwaves[2].active = "no"

\* C18: the committed wreckage collection of an instance holds wreckagePieces
\* records of its class, ids 0.., if it was created with showWreckage (8 for
\* BOSS) and none otherwise; an instance created without showWreckage has
\* never received a ground hit and never owns or queues a secondary explosion.
C18_WreckageBatch ==
  \A i \in DOMAIN inst :
    LET r == inst[i]
    IN /\ (~r.initQueued /\ r.explosionClass \in DOMAIN CLASSES) =>
            /\ Len(r.wreckage)
                 = (IF r.showWreckage THEN CLASSES[r.explosionClass].wreckagePieces ELSE 0)
            /\ \A k \in 1..Len(r.wreckage) : r.wreckage[k].id = k - 1
            /\ (r.explosionClass = "BOSS" /\ r.showWreckage) => Len(r.wreckage) = 8
       /\ ~r.showWreckage =>
            /\ r.wreckage = <<>>
            /\ r.secSeq = 0
            /\ r.secQueue = <<>>
            /\ r.secondaryExplosions = <<>>

\* A BOSS instance created with showWreckage owns eight pieces, one of which
\* has landed and has its secondary explosion.
C18_Witness ==
  \E i \in DOMAIN inst :
    /\ inst[i].explosionClass = "BOSS"
    /\ inst[i].showWreckage
    /\ Len(inst[i].wreckage) = 8
    /\ Len(inst[i].secondaryExplosions) = 1
    /\ inst[i].wreckage[1].hasLanded = "yes"
    /\ inst[i].wreckage[2].hasLanded = "no"

\* C20: the frame in which a shake reaches progress >= 1 puts the camera at
\* the position captured when the shake was started and clears the start time;
\* a frame of an inactive shake leaves the camera where it is; the shake is
\* started, and the camera position captured, only by a change of the
\* intensity to a value above 0.
C20_ShakeRestores ==
  [][/\ ShakeTick =>
          IF shake.startTime = Null
          THEN shake' = shake
          ELSE IF shake.startTime[1] + ShakeStepMs >= shake.duration
          THEN /\ shake'.camera = shake.originalPosition
               /\ shake'.startTime = Null
          ELSE shake'.startTime # Null
     /\ \A v \in ShakeIntensities :
          (shake.mounted /\ v # shake.intensity /\ shake'.intensity = v) =>
            IF v > 0
            THEN shake'.startTime = <<0>> /\ shake'.originalPosition = shake.camera
            ELSE /\ shake'.startTime = shake.startTime
                 /\ shake'.originalPosition = shake.originalPosition
     /\ (shake.startTime = Null /\ shake'.startTime # Null) =>
          (shake'.intensity > 0 /\ shake'.intensity # shake.intensity)
     /\ shake'.originalPosition # shake.originalPosition =>
          (shake'.originalPosition = shake.camera /\ shake'.startTime = <<0>>)]_vars

\* A shake of 500 ms has ended: the camera is at the captured position and the
\* shake is inactive, its intensity still above 0.
C20_Witness ==
  /\ shake.mounted
  /\ shake.startTime = Null
  /\ shake.intensity > 0
  /\ shake.duration = 500
  /\ shake.originalPosition = <<0, 0, 5>>
  /\ shake.camera = <<0, 0, 5>>

\* No child component of instance r is mounted.
NoChildMounted(r) ==
  /\ \A k \in 1..Len(r.shockwaves) : r.shockwaves[k].active = "gone"
  /\ \A k \in 1..Len(r.wreckage) : r.wreckage[k].hasLanded = "gone"
  /\ \A k \in 1..Len(r.chainExplosions) : r.chainExplosions[k].triggered = "gone"
  /\ \A k \in 1..Len(r.secondaryExplosions) : r.secondaryExplosions[k].ex = FreshNested

\* C21: the completed flag of an instance starts false and, once true, stays
\* true for as long as the instance is mounted; a completed instance has no
\* child mounted, and a frame changes nothing of it but its clock: no child is
\* ticked and no update is queued on it.
C21_CompletedForGood ==
  /\ [](\A i \in DOMAIN inst : inst[i].isComplete => NoChildMounted(inst[i]))
  /\ [][/\ \A i \in DOMAIN inst' \ DOMAIN inst : ~inst'[i].isComplete
        /\ \A i \in DOMAIN inst \cap DOMAIN inst' :
             inst[i].isComplete =>
               /\ inst'[i].isComplete
               /\ inst'[i] = [inst[i] EXCEPT !.elapsed = inst'[i].elapsed]]_vars

\* A completed instance that the application has not removed: its flag is
\* committed, its completion callback was invoked once, and the pieces it had
\* are unmounted.
C21_Witness ==
  \E i \in DOMAIN inst :
    /\ inst[i].isComplete
    /\ inst[i].elapsed = AgeCap
    /\ inst[i].wreckage # <<>>
    /\ calls[i] = 1

\* The secondary record of r with the id and the reported position of old, if
\* any.
SecondaryAt(r, old) ==
  SelectSeq(r.secondaryExplosions, LAMBDA e : e.id = old.id /\ e.position = old.position)

\* C22: a secondary explosion of a mounted, uncompleted parent has set its
\* completed flag exactly when one of its frames has seen more than 3800 ms
\* since it was mounted; a record leaves the secondary collection only in the
\* commit that follows that frame, that commit removes it, and every record
\* that has not completed stays, with its id and position.
C22_SecondaryRemoved ==
  /\ [](\A i \in DOMAIN inst :
          Rendered(inst[i]) =>
            \A k \in 1..Len(inst[i].secondaryExplosions) :
              LET ex == inst[i].secondaryExplosions[k].ex
              IN Marked(ex) <=> ex.elapsed > CLASSES["SMALL"].duration + GraceMs)
  /\ [][\A i \in DOMAIN inst \cap DOMAIN inst' :
          \A k \in 1..Len(inst[i].secondaryExplosions) :
            LET e    == inst[i].secondaryExplosions[k]
                left == SecondaryAt(inst'[i], e)
            IN /\ Len(left) <= 1
               /\ left = <<>> => (Marked(e.ex) /\ Render)
               /\ left # <<>> => left[1].ex.explosionClass = e.ex.explosionClass
               /\ (Render /\ Rendered(inst[i]) /\ Marked(e.ex)) => left = <<>>]_vars

\* Two pieces of an uncompleted instance have landed in different frames; the
\* secondary explosion of the first has completed and is gone, that of the
\* second is still in the collection.
C22_Witness ==
  \E i \in DOMAIN inst :
    /\ Rendered(inst[i])
    /\ inst[i].secSeq = 2
    /\ inst[i].secQueue = <<>>
    /\ Len(inst[i].secondaryExplosions) = 1
    /\ inst[i].secondaryExplosions[1].position = <<1, 1>>
    /\ inst[i].secondaryExplosions[1].ex.elapsed > 0

\* C23: the chain collection of a mounted, uncompleted instance holds no
\* record whose nested instance has its completed flag true: such a record
\* has been detached.
C23_ChainDetached ==
  \A i \in DOMAIN inst :
    Rendered(inst[i]) =>
      \A k \in 1..Len(inst[i].chainExplosions) :
        ~inst[i].chainExplosions[k].ex.isComplete

\* C24: the first frame of a child that sees its age at or past its lifetime
\* calls onComplete and updates nothing; from then on no frame updates the
\* child, its removal stays queued, and the next render of its owner takes the
\* record away.
C24_NoUpdateOnceDone ==
  /\ [](child.present /\ child.calls > 0 => child.removing)
  /\ [][/\ (ChildFrame /\ child.age + ChildStepMs >= child.lifetime) =>
             /\ child'.calls = child.calls + 1
             /\ child'.updatedAt = child.updatedAt
        /\ child.calls > 0 => child'.updatedAt = child.updatedAt
        /\ (ChildCommit /\ child.removing) => ~child'.present]_vars

\* A particle of 300 ms was updated at 100 and 200 ms, called onComplete at
\* 300 ms and again at 400 ms, and its record is gone.
C24_Witness ==
  /\ child.kind = "particle"
  /\ child.lifetime = 300
  /\ ~child.present
  /\ child.updatedAt = 200
  /\ child.age = 400
  /\ child.calls = 2

\* C25: removing a child by id takes away the record with that id and no
\* other, and doing it again, or for an id that is not there, changes nothing.
C25_RemovalIdempotent ==
  /\ [](\A id \in CollIds :
          LET once == RemoveById(coll.records, id)
          IN /\ RemoveById(once, id) = once
             /\ (\A k \in 1..Len(coll.records) : coll.records[k].id # id) =>
                  once = coll.records
             /\ \A k \in 1..Len(coll.records) :
                  coll.records[k].id # id =>
                    \E j \in 1..Len(once) : once[j] = coll.records[k])
  /\ [][CollRender =>
          /\ \A k \in 1..Len(coll.records) :
               (\E j \in 1..Len(coll'.records) : coll'.records[j] = coll.records[k])
                 <=> (\A q \in 1..Len(coll.queued) : coll.queued[q] # coll.records[k].id)
          /\ Len(coll'.records) <= Len(coll.records)
          /\ (\A q \in 1..Len(coll.queued) :
                \A k \in 1..Len(coll.records) : coll.records[k].id # coll.queued[q])
               => coll'.records = coll.records]_vars

\* Of records 1, 3, 5 the one with id 3 and the absent id 4 were removed, one
\* of them twice: records 1 and 5 are left.
C25_Witness ==
  /\ Len(coll.records) = 2
  /\ coll.records[1] = [id |-> 1, slot |-> 1]
  /\ coll.records[2] = [id |-> 5, slot |-> 3]
  /\ coll.removed = {3, 4}
  /\ coll.again
  /\ coll.queued = <<>>

\* The x, y and z scale of piece k are in the ratios of the class's
\* wreckageScale.
SameRatios(k) ==
  LET scale == wreckBatch.wreckage[k].scale
      base == WreckageScale[wreckBatch.explosionClass]
  IN \A a, b \in 1..3 : scale[a] * base[b] = scale[b] * base[a]

\* C26 as stated: one factor per piece, so every piece keeps the axis ratios
\* of the class's wreckageScale.
C26_OneFactorPerPiece ==
  \A k \in 1..Len(wreckBatch.wreckage) : SameRatios(k)

\* C26 as the code has it: every axis of every piece is the class's
\* wreckageScale on that axis times a factor of its own, at least 0.7 and
\* below 1.3.
C26_FactorPerAxis ==
  wreckBatch.effectRan =>
    /\ Len(wreckBatch.wreckage) = CLASSES[wreckBatch.explosionClass].wreckagePieces
    /\ \A k \in 1..Len(wreckBatch.wreckage) : \A a \in 1..3 :
         LET scale == wreckBatch.wreckage[k].scale[a]
             base == WreckageScale[wreckBatch.explosionClass][a]
         IN /\ 7 * base <= scale
            /\ scale < 13 * base

\* A MEDIUM batch whose first piece is stretched along x and squeezed along y,
\* and whose second piece keeps the ratios of the class.
C26_Witness ==
  /\ wreckBatch.effectRan
  /\ wreckBatch.explosionClass = "MEDIUM"
  /\ wreckBatch.wreckage[1].scale = <<720, 245, 900>>
  /\ SameRatios(2)

\* C27: a piece whose landed flag is committed stays landed and no later step
\* changes its position, rotation or velocity; from the landing on, each smoke
\* record of the piece goes on ageing on the clock it was spawned with, and
\* leaves the collection only once its progress has reached 1.
C27_LandedKeepsTrail ==
  [][/\ trail.hasLanded = "yes" =>
          /\ trail'.hasLanded = "yes"
          /\ trail'.movedAt = trail.movedAt
     /\ trail.hasLanded # "no" =>
          \A k \in 1..Len(trail.smokeParticles) :
            LET p == trail.smokeParticles[k]
                left == SelectSeq(trail'.smokeParticles, LAMBDA q : q.id = p.id)
            IN /\ left = <<>> => p.id \in trail.removes
               /\ left # <<>> => left[1].startTime = p.startTime]_vars

\* C28: a frame spawns at most one smoke record, only if the piece had not
\* reached its ground level in an earlier frame and only if more than 30 ms
\* have passed since the last spawn; nothing else spawns smoke.
C28_SmokeWhileFalling ==
  [][/\ Len(trail'.adds) <= Len(trail.adds) + 1
     /\ Len(trail'.adds) > Len(trail.adds) =>
          /\ TrailTick
          /\ trail.hasLanded = "no"
          /\ trail'.now - trail.lastSmokeTime > SmokeGapMs
          /\ trail'.lastSmokeTime = trail'.now]_vars

\* C29 as stated: in a frame every moving record, a wreckage piece included,
\* advances by delta times the velocity it had at the start of the frame, and
\* its velocity is decayed and then biased only afterwards.
C29_MoveThenAccelerate ==
  [][MoveFrame =>
       /\ mover'.y = mover.y + Travel(mover.vy)
       /\ mover'.vy = Slowed(mover.kind, mover.vy)]_vars

\* C29 as the code has it: a particle and a trail smoke particle advance by
\* delta times the velocity of the start of the frame, and the velocity is
\* then scaled by the decay of the type and given its bias (neither for a
\* core particle); a wreckage piece first takes GRAVITY * delta off its
\* vertical velocity and advances by delta times the new velocity, so the
\* gravity of a frame moves the piece in that same frame.
C29_MotionOrder ==
  [][MoveFrame =>
       /\ mover'.vy = Slowed(mover.kind, mover.vy)
       /\ mover.kind # "wreckage" => mover'.y = mover.y + Travel(mover.vy)
       /\ mover.kind = "wreckage" =>
            /\ mover'.y = mover.y + Travel(mover'.vy)
            /\ mover'.vy = mover.vy - GRAVITY * MoveStepMs * 1000
       /\ mover.kind = "core" => mover'.vy = mover.vy]_vars

\* A wreckage piece released at rest has fallen 0.6 units in its first frame
\* of 200 ms.
C29_Witness ==
  /\ mover.moves = 1
  /\ mover.kind = "wreckage"
  /\ mover.vy = -3000000
  /\ mover.y = -600000

\* C30: the flash of an instance of any class is there from the first render
\* of the instance; its completion is called in the first frame that finds
\* 200 ms or more elapsed and in no frame before; the commit that follows
\* removes it, and nothing brings it back.
C30_FlashOnce ==
  /\ [](child.kind = "flash" =>
          /\ child.calls = 0 => child.present
          /\ child.calls > 0 <=> child.age >= FlashDuration
          /\ child.removing => child.present)
  /\ [][child.kind = "flash" =>
          /\ ~child.present => ~child'.present
          /\ (ChildCommit /\ child.calls > 0) => ~child'.present
          /\ child'.lifetime = FlashDuration]_vars

\* The flash of a BOSS instance was still there in the frame at 100 ms, was
\* completed by the frame at 200 ms and is gone.
C30_Witness ==
  /\ child.kind = "flash"
  /\ child.explosionClass = "BOSS"
  /\ ~child.present
  /\ child.updatedAt = 100
  /\ child.age = 200
  /\ child.calls = 1

\* The ids of the records of a collection are pairwise different.
DistinctIds(records) ==
  \A j, k \in 1..Len(records) : records[j].id = records[k].id => j = k

\* C31: within the shockwave, wreckage, chain and secondary collection of an
\* instance no two records share an id, two records created in the same frame
\* included.
C31_UniqueIds ==
  \A i \in DOMAIN inst :
    /\ DistinctIds(inst[i].shockwaves)
    /\ DistinctIds(inst[i].wreckage)
    /\ DistinctIds(inst[i].chainExplosions)
    /\ DistinctIds(inst[i].secondaryExplosions)

\* The distance of coordinate a of the camera in the next state from the
\* captured base is at most intensity * (1 - progress), progress being that
\* of the frame.
NearBase(a) ==
  LET off == shake'.camera[a] - shake.originalPosition[a]
      mag == shake.intensity * (shake.duration - shake'.startTime[1])
  IN (IF off < 0 THEN -off ELSE off) * shake.duration <= (IF mag < 0 THEN -mag ELSE mag)

\* C32 as stated: a frame of the shake never changes the camera's Z and
\* leaves X and Y within intensity * (1 - progress) of the captured base; a
\* change of the intensity to 0 or less starts no shake, and a component on
\* which no shake runs changes nothing of the camera.
C32_OnlyXY ==
  [][/\ ShakeTick =>
          /\ shake'.camera[3] = shake.camera[3]
          /\ shake.startTime = Null => shake'.camera = shake.camera
          /\ shake'.startTime # Null => NearBase(1) /\ NearBase(2)
     /\ (shake.startTime = Null /\ shake'.startTime # Null) => shake'.intensity > 0]_vars

\* C32 as the code has it: a frame of a running shake below progress 1 leaves
\* Z as it is and puts X and Y within intensity * (1 - progress) of the
\* captured base; the frame that ends the shake copies the whole captured
\* position, Z included; a frame without a running shake changes nothing; a
\* change of the intensity never touches the camera and starts a shake only
\* if the new value is above 0.
C32_ShakeWrites ==
  [][/\ ShakeTick =>
          IF shake.startTime = Null THEN shake'.camera = shake.camera
          ELSE IF shake'.startTime = Null THEN shake'.camera = shake.originalPosition
          ELSE /\ shake'.camera[3] = shake.camera[3]
               /\ NearBase(1)
               /\ NearBase(2)
     /\ shake'.intensity # shake.intensity => shake'.camera = shake.camera
     /\ (shake.startTime = Null /\ shake'.startTime # Null) => shake'.intensity > 0]_vars

\* In the middle of a shake of intensity 2 the camera is off its base in X and
\* Y, and the scene has moved it in Z since the shake began.
C32_Witness ==
  /\ shake.startTime # Null
  /\ shake.intensity = 2
  /\ shake.originalPosition = <<0, 0, 5>>
  /\ shake.camera = <<1, -1, 8>>

\* C33: the opacity and the scale that a frame gives a particle are
\* max(0, 1 - progress) and max(0.01, size * (1 - 0.7 * progress)) for the
\* progress of that frame; these are 1 and size at progress 0, 0 and
\* 0.3 * size at progress 1, and the opacity never goes up.
C33_ParticleVisual ==
  /\ [](child.kind = "particle" =>
          /\ child.updatedAt > 0 =>
               /\ child.opacity = child.lifetime - child.updatedAt
               /\ child.scale = child.size * (10 * child.lifetime - 7 * child.updatedAt)
               /\ child.scale >= 10 * child.lifetime
          /\ ParticleOpacity(0, child.lifetime) = child.lifetime
          /\ ParticleScale(child.size, 0, child.lifetime) = child.size * 10 * child.lifetime
          /\ ParticleOpacity(child.lifetime, child.lifetime) = 0
          /\ ParticleScale(child.size, child.lifetime, child.lifetime)
               = 3 * child.size * child.lifetime)
  /\ [][child.kind = "particle" => child'.opacity <= child.opacity]_vars

\* A particle of size 0.3 and lifetime 300 ms after its frame at 200 ms: its
\* opacity is 1/3 and its scale 0.16.
C33_Witness ==
  /\ child.kind = "particle"
  /\ child.size = 30
  /\ child.lifetime = 300
  /\ child.updatedAt = 200
  /\ child.opacity = 100
  /\ child.scale = 48000

\* The number of records with the given id among the first k of a list.
Dropped(list, id, k) == Cardinality({j \in 1..k : list[j].id = id})

\* C34: removeExplosion(id) leaves the committed list, the id counter and the
\* ids returned so far as they are, and the active set it leaves holds every
\* record with another id, unchanged and in the same relative order, and no
\* other record; clearAllExplosions leaves the id counter as it is; the next
\* triggerExplosion returns the value of the counter.
C34_RemoveTouchesOneRecord ==
  [][/\ \A id \in 0..MaxCalls :
          removeExplosionWithin(id, MaxPending) =>
            /\ explosionIdRef' = explosionIdRef
            /\ returned' = returned
            /\ explosions' = explosions
            /\ Len(activeSet') = Len(activeSet) - Dropped(activeSet, id, Len(activeSet))
            /\ \A k \in 1..Len(activeSet) :
                 activeSet[k].id # id =>
                   activeSet'[k - Dropped(activeSet, id, k)] = activeSet[k]
     /\ clearAllExplosionsWithin(MaxPending) =>
          explosionIdRef' = explosionIdRef /\ returned' = returned
     /\ \A cfg \in SmallInputs :
          triggerExplosionWithin(cfg, MaxCalls, MaxPending) =>
            returned'[Len(returned')] = explosionIdRef]_vars

\* Records 0, 1 and 2 are committed, removeExplosion(1) was called and the
\* trigger after it returned 3: the active set is 0, 2, 3 in this order.
C34_Witness ==
  /\ Len(explosions) = 3
  /\ \A k \in 1..3 : explosions[k].id = k - 1
  /\ Len(queue) = 2 /\ queue[1] = RemoveOp(1) /\ queue[2].op = "add"
  /\ returned = <<0, 1, 2, 3>>
  /\ Len(activeSet) = 3
  /\ activeSet[1] = explosions[1] /\ activeSet[2] = explosions[3] /\ activeSet[3].id = 3

\* The nested instances an instance has spawned so far: one per chain record
\* whose timer has run, one per ground-hit callback.
Spawned(r) ==
  Len(SelectSeq(r.chainExplosions, LAMBDA c : c.triggered # "no")) + r.secSeq

\* C35: every nested instance, chain or secondary, is of class SMALL without
\* wreckage, a class that has neither chain records nor, without wreckage,
\* pieces that could spawn a secondary explosion; and an instance has spawned
\* at most chainCount + wreckagePieces nested instances (the pieces counted
\* only when wreckage is shown).
C35_NestedBounded ==
  /\ ~CLASSES["SMALL"].chainExplosions
  /\ \A i \in DOMAIN inst :
       LET r   == inst[i]
           cfg == Config(r.explosionClass)
       IN /\ \A k \in 1..Len(r.chainExplosions) :
               r.chainExplosions[k].triggered # "no" =>
                 /\ r.chainExplosions[k].ex.explosionClass = "SMALL"
                 /\ ~r.chainExplosions[k].ex.showWreckage
          /\ \A k \in 1..Len(r.secondaryExplosions) :
               /\ r.secondaryExplosions[k].ex.explosionClass = "SMALL"
               /\ ~r.secondaryExplosions[k].ex.showWreckage
          /\ Spawned(r) <= (IF cfg.chainExplosions THEN cfg.chainCount ELSE 0)
                             + (IF r.showWreckage THEN cfg.wreckagePieces ELSE 0)

\* C36: when nothing but the shake moves the camera, the camera is where it
\* was before the first shake whenever no shake is running, also after the
\* intensity was changed to another positive value during a shake.
C36_BackAtStart ==
  (shake.mounted /\ shake.startTime = Null) => shake.camera = DriftStart

\* The check of instance r fires in this step: setIsComplete(true), onComplete.
CheckFires(r, s) == ~r.isComplete /\ ~r.setIsComplete /\ s.setIsComplete

MountedAfter(r, c) == r.elapsed - c.ex.elapsed

\* The time a chain explosion has between its completion and its parent's.
ChainSlack ==
  (CLASSES["BOSS"].duration + GraceMs) - (Config("SMALL").duration + GraceMs)

C38_ChildrenDoneFirst ==
  /\ [][\A i \in DOMAIN inst \cap DOMAIN inst' :
          (inst[i].explosionClass \in DOMAIN CLASSES /\ CheckFires(inst[i], inst'[i])) =>
            /\ ~inst[i].initQueued
            /\ inst[i].batchElapsed >= MaxParticleLifetime
            /\ \A k \in 1..Len(inst[i].shockwaves) :
                 inst[i].shockwaves[k].active = "done"]_vars
  /\ [](\A c \in DOMAIN CLASSES :
          /\ MaxParticleLifetime < CLASSES[c].duration + GraceMs
          /\ (RING_COUNT - 1) * RingDelay + SHOCKWAVE_DURATION = 480
          /\ 480 < CLASSES[c].duration + GraceMs)

\* The check of a SMALL instance has just fired, 4000 ms after it mounted and
\* 3600 ms after its batch was committed; its rings are gone.
C38_Witness ==
  \E i \in DOMAIN inst :
    /\ inst[i].explosionClass = "SMALL"
    /\ inst[i].setIsComplete
    /\ inst[i].elapsed = 4000
    /\ inst[i].batchElapsed = 3600
    /\ inst[i].shockwaves = <<>>

\* C39: the shockwave, wreckage and chain collection of an instance and the
\* count of particle records given to it are empty until the batches of the
\* init effect are committed; from then on no step adds a record to any of
\* the four: the three collections keep or lose records and the particle
\* count stays at the class's particleCount.
C39_BatchesOnce ==
  /\ [](\A i \in DOMAIN inst :
          IF inst[i].initQueued
          THEN /\ inst[i].particlesAdded = 0
               /\ inst[i].shockwaves = <<>>
               /\ inst[i].wreckage = <<>>
               /\ inst[i].chainExplosions = <<>>
          ELSE inst[i].particlesAdded = Config(inst[i].explosionClass).particleCount)
  /\ [][\A i \in DOMAIN inst \cap DOMAIN inst' :
          ~inst[i].initQueued =>
            /\ inst'[i].particlesAdded = inst[i].particlesAdded
            /\ Len(inst'[i].shockwaves) <= Len(inst[i].shockwaves)
            /\ Ids(inst'[i].shockwaves) \subseteq Ids(inst[i].shockwaves)
            /\ Len(inst'[i].wreckage) <= Len(inst[i].wreckage)
            /\ Ids(inst'[i].wreckage) \subseteq Ids(inst[i].wreckage)
            /\ Len(inst'[i].chainExplosions) <= Len(inst[i].chainExplosions)
            /\ Ids(inst'[i].chainExplosions) \subseteq Ids(inst[i].chainExplosions)]_vars

\* A MEDIUM instance long after its batches: the rings are gone, the two
\* pieces are in the collection, a secondary explosion has been added, and
\* the particle count is the 30 of the batch.
C39_Witness ==
  \E i \in DOMAIN inst :
    /\ inst[i].explosionClass = "MEDIUM"
    /\ ~inst[i].initQueued
    /\ inst[i].particlesAdded = 30
    /\ inst[i].shockwaves = <<>>
    /\ Len(inst[i].wreckage) = 2
    /\ inst[i].secondaryExplosions # <<>>

====
